---- MODULE Spec2Model ----
(***************************************************************************)
(* The streaming "virtual file" of the WavPack stream test harness: a ring *)
(* buffer written by the encoder thread through write_block and read by    *)
(* the decoder thread through the WavpackReader callbacks (read_bytes,     *)
(* push_back_byte, ...), guarded by one mutex and two condition variables. *)
(***************************************************************************)
EXTENDS Integers, Sequences, FiniteSets, TLC

\* ---------------------------------------------------------------- bounds
MaxSize == 3        \* largest buffer_size handed to initialize_stream
MaxTotal == 4       \* most bytes handed to write_block in one run
MaxByte == 2        \* byte values are 0..MaxByte
MaxFlush == 2       \* most flush_stream calls in one run
MaxLen == MaxSize   \* largest length handed to write_block: more than the ring can hold
MaxCount == MaxSize \* largest bcount handed to read_bytes
MaxFree == 2        \* most free_stream calls in one run
SeedBits == 3       \* bits of random_seed the model keeps
ByteBits == 2       \* bits of a byte of a block handed to fuzz_buffer (8 in the code)
MaxFuzzLen == 3     \* largest length handed to fuzz_buffer
MaxPeriod == 2      \* largest fuzz period
RandomSteps == 4    \* values of frandom the model keeps
MaxDraws == 2       \* most draws signal synthesis makes in one run
MaxErrors == 2      \* largest error count the decoder reports
MaxSamples == 2     \* largest sample count, encoded or decoded

\* ------------------------------------------------------- program constants
NULL == 0
EOF == -1
Base == 16          \* the address malloc returns for the ring buffer
Uninit == 256       \* content of a malloc'ed byte nothing has stored to yet

Bytes == 0..MaxByte

VARIABLES
    ws,         \* the StreamingFile structure
    mem,        \* the ring buffer's memory, mem[i] is the byte at buffer_base + i - 1
    mutex,      \* ws->mutex: "free", or the thread holding it
    wr,         \* the producer thread: its place and write_block's locals
    rd,         \* the consumer thread: its place and read_bytes' locals
    disk,       \* the bytes fwrite has put into the backing file ws->file
    hist,       \* history: what was written, what the consumer consumed, call counts
    random_seed, \* the random number generator's seed, its low SeedBits bits
    fb,         \* a call of fuzz_buffer: its place, its block and its locals
    test,       \* run_test at its verdict: what was encoded and decoded, its result
    mx,         \* main and the test matrix: flags, the place in each level, status
    rt,         \* one run_test call: its flags, its place, the decoder thread
    cv,         \* a sample conversion: the function, its arguments, its result
    dt,         \* decode_thread: its place, its decoder, what it has counted
    lp          \* run_test's streaming loop: its counters

stream_vars == <<ws, mem, disk, mutex, wr, rd, hist>>
fuzz_vars == <<random_seed, fb>>
test_vars == <<test, mx, rt, cv, dt, lp>>
vars == <<ws, mem, disk, mutex, wr, rd, hist, random_seed, fb, test, mx, rt, cv, dt, lp>>

\* CLEAR (wv_stream): every field of the structure is zero. bytes_written and
\* bytes_read are uint32_t; MaxTotal keeps them far below 2^32, where they wrap.
\* empty_waits and full_waits are left out: they are incremented before each
\* pthread_cond_wait (lines 930, 988) and no code reads them.
StreamingFile ==
    [buffer_size |-> 0, bytes_written |-> 0, bytes_read |-> 0, first_block_size |-> 0,
     buffer_base |-> NULL, buffer_head |-> NULL, buffer_tail |-> NULL,
     push_back |-> 0, done |-> 0, error |-> 0, fuzz_period |-> 0, file |-> NULL]

initialize_stream(w, buffer_size, fuzz_period) ==
    IF buffer_size # 0
    THEN [w EXCEPT !.buffer_size = buffer_size, !.buffer_base = Base,
                   !.buffer_head = Base, !.buffer_tail = Base,
                   !.fuzz_period = fuzz_period]
    ELSE w

\* a signal that releases nobody
cond_signal_lost(pc) == pc

\* pthread_cond_signal on a condition variable whose only possible waiter is
\* the thread at place pc: a waiter is released, a signal with no waiter is lost
cond_signal(pc) == IF pc = "wait" THEN "woken" ELSE pc

\* a thread outside every channel operation: the locals of the last call are gone
WrIdle == [pc |-> "idle", data |-> <<>>, data_ptr |-> 1, length |-> 0, ret |-> 0]
RdIdle == [pc |-> "idle", data |-> <<>>, bcount |-> 0, req |-> 0, ret |-> 0]

None == 0 - 1       \* "no byte" in the history fields that hold a byte

\* a thread outside fuzz_buffer, run_test away from its verdict, main and
\* run_test not started, no conversion called
FbIdle ==
    [pc |-> "idle", data |-> <<>>, length |-> 0, num_hits |-> 0, index |-> 0,
     delta_bits |-> 0, initial_value |-> 0, saved_seed |-> 0,
     entry |-> <<>>, hits |-> <<>>, drawn |-> 0,
     fuzz_period |-> 0, fuzz_factor |-> 0, count |-> 0]
TestIdle == [pc |-> "idle"]
MxIdle == [pc |-> "idle"]
RtIdle == [pc |-> "idle"]
CvIdle == [pc |-> "idle"]
DtIdle == [pc |-> "idle"]
LpIdle == [pc |-> "idle"]

\* line 1077: the seed the generator starts from, 0x3141592653589793. One draw
\* multiplies the seed by 15 and flips its lowest bit, three times over, modulo
\* 2^64: the low bits of the new seed depend on the low bits of the old one
\* only, and the model keeps the low SeedBits bits (of the seed's low 16 bits).
RandomSeed == 38803
SeedMod == 2 ^ SeedBits

\* run_test, lines 481-584: the channel as run_test sets it up, with a ring
\* buffer of one of the sizes or none, and a backing file or none
stream_init(sizes, files, periods) ==
    /\ \E size \in sizes, file \in files, fuzz_period \in periods :
        ws = [initialize_stream(StreamingFile, size, fuzz_period) EXCEPT !.file = file]
    /\ mem = [i \in 1..ws.buffer_size |-> Uninit]
    /\ disk = <<>>
    /\ mutex = "free"
    /\ wr = WrIdle
    /\ rd = RdIdle
    /\ hist = [written |-> <<>>, consumed |-> <<>>, flushes |-> 0, pushback |-> "never",
               unreadable |-> None, pushed |-> None,
               released |-> 0, fcloses |-> 0, frees |-> 0,
               call |-> "none", failed |-> FALSE]

\* line 552: the FILE pointer fopen returns
File == 1

Init ==
    /\ stream_init(0..MaxSize, {NULL}, {0})
    /\ random_seed = RandomSeed % SeedMod
    /\ fb = FbIdle
    /\ test = TestIdle
    /\ mx = MxIdle
    /\ rt = RtIdle
    /\ cv = CvIdle
    /\ dt = DtIdle
    /\ lp = LpIdle

\* ------------------------------------------------------------ write side

\* fuzz_buffer, lines 867-879: one hit leaves one byte of the block with a value
\* different from the one it had before the hit
fuzz_hit(S, length) ==
    UNION {{[d EXCEPT ![i] = v] : v \in Bytes \ {d[i]}} : d \in S, i \in 1..length}

RECURSIVE fuzz_hits(_, _, _)
fuzz_hits(S, length, num_hits) ==
    IF num_hits = 0 THEN S
    ELSE S \cup fuzz_hits(fuzz_hit(S, length), length, num_hits - 1)

\* fuzz_buffer, lines 850-882: between 0 and (length + 1) / 2 hits, chosen by
\* the random number generator
fuzz_buffer(data, length) == fuzz_hits({data}, length, (length + 1) \div 2)

\* write_bytes_available with no byte kept free: a full ring looks empty
write_bytes_available_all(w) ==
    LET bytes_available == w.buffer_tail - w.buffer_head
    IN  IF bytes_available <= 0 THEN bytes_available + w.buffer_size ELSE bytes_available

\* lines 917-921: the room left in the ring, one byte is always kept free
write_bytes_available(w) ==
    LET bytes_available == w.buffer_tail - w.buffer_head - 1
    IN  IF bytes_available < 0 THEN bytes_available + w.buffer_size ELSE bytes_available

\* lines 918-927: the chunk copied by one pass of write_block's loop
write_bytes_to_copy(w, length) ==
    LET bytes_available == write_bytes_available(w)
        bytes_to_copy == IF bytes_available < length THEN bytes_available ELSE length
    IN  IF w.buffer_head + bytes_to_copy > w.buffer_base + w.buffer_size
        THEN w.buffer_base + w.buffer_size - w.buffer_head
        ELSE bytes_to_copy

\* lines 937-938: a cursor advanced by n, wrapping at the end of the buffer
advance(w, cursor, n) ==
    IF cursor + n = w.buffer_base + w.buffer_size THEN w.buffer_base ELSE cursor + n

\* store with data_ptr never advanced: every chunk is taken from the block's start
store_from_start(m, w, data, data_ptr, n) ==
    [i \in DOMAIN m |->
        LET k == i - (w.buffer_head - w.buffer_base + 1)
        IN  IF k >= 0 /\ k < n THEN data[1 + k] ELSE m[i]]

\* memcpy (buffer_head, data_ptr, n)
store(m, w, data, data_ptr, n) ==
    [i \in DOMAIN m |->
        LET k == i - (w.buffer_head - w.buffer_base + 1)
        IN  IF k >= 0 /\ k < n THEN data[data_ptr + k] ELSE m[i]]

\* The encoder's output: the code moves the bytes of a block without looking at
\* them, so the stream is one whose k-th byte is k - 1 modulo the number of byte
\* values (neighbours differ and the first byte is 0); the caller chooses where
\* the blocks end.
stream_byte(k) == (k - 1) % (MaxByte + 1)
block(written, length) == [i \in 1..length |-> stream_byte(Len(written) + i)]

\* the arguments of a write_block call: a null channel, a null block, or a
\* block of length bytes (0 included)
WriteArgs ==
    {[id_null |-> FALSE, data_null |-> FALSE, length |-> n] : n \in 0..MaxLen}
    \cup {[id_null |-> TRUE, data_null |-> FALSE, length |-> 1],
          [id_null |-> FALSE, data_null |-> TRUE, length |-> 1]}

\* no_buffer with the test left out: a channel with no ring goes on to the mutex
no_buffer_unchecked(w) == FALSE

\* line 911: "if no buffer, just swallow data silently"
no_buffer(w) == w.buffer_size = 0

\* a call with a channel, a block and a length
valid_call(a) == ~a.id_null /\ ~a.data_null /\ a.length >= 1

\* rejected with the length not looked at
rejected_unless_null(a) == a.id_null \/ a.data_null

\* line 892: `if (!ws || !data || !length)`
rejected(a) == a.id_null \/ a.data_null \/ a.length = 0

\* first_block_size taken from every write
set_first_block_size_always(w, length) == length

\* lines 898-899: `if (!ws->first_block_size) ws->first_block_size = length;`
set_first_block_size(w, length) ==
    IF w.first_block_size = 0 THEN length ELSE w.first_block_size

\* lines 892-912: everything write_block does before it takes the mutex.
\* fwrite returns the number n of bytes it has written, 0..length, and the
\* code takes only 0 for a failure. The history keeps whether the call was a
\* valid one, and whether an fwrite call has written less than it was asked to.
write_block_call ==
    /\ UNCHANGED <<fuzz_vars, test_vars>>
    /\ wr.pc = "idle"
    /\ hist.flushes = 0
    /\ hist.released = 0
    /\ \E a \in WriteArgs :
        /\ Len(hist.written) + a.length <= MaxTotal
        /\ IF rejected(a)
           THEN /\ wr' = [WrIdle EXCEPT !.pc = "ret", !.ret = 0]
                /\ hist' = [hist EXCEPT !.call = IF valid_call(a) THEN "valid" ELSE "invalid"]
                /\ UNCHANGED <<ws, mem, disk, mutex, rd>>
           ELSE \E fz \in (IF ws.fuzz_period # 0
                           THEN fuzz_buffer(block(hist.written, a.length), a.length)
                           ELSE {block(hist.written, a.length)}),
                   n \in (IF ws.file # NULL /\ ws.error = 0 THEN 0..a.length ELSE {0}) :
                LET mirror == ws.file # NULL /\ ws.error = 0
                    w1 == [ws EXCEPT !.first_block_size = set_first_block_size(ws, a.length),
                                     !.bytes_written = @ + a.length]
                    w2 == IF mirror /\ n = 0
                          THEN [w1 EXCEPT !.error = 1, !.file = NULL]
                          ELSE w1
                IN  /\ ws' = w2
                    /\ disk' = IF mirror THEN disk \o SubSeq(fz, 1, n) ELSE disk
                    /\ wr' = IF no_buffer(w2)
                             THEN [WrIdle EXCEPT !.pc = "ret", !.ret = 1]
                             ELSE [pc |-> "lock", data |-> fz, data_ptr |-> 1,
                                   length |-> a.length, ret |-> 0]
                    /\ hist' = [hist EXCEPT
                                  !.written = @ \o fz,
                                  !.call = IF valid_call(a) THEN "valid" ELSE "invalid",
                                  !.failed = @ \/ (mirror /\ n < a.length),
                                  !.fcloses = IF mirror /\ n = 0 THEN @ + 1 ELSE @]
                    /\ UNCHANGED <<mem, mutex, rd>>

\* line 914: pthread_mutex_lock
write_block_lock ==
    /\ UNCHANGED <<fuzz_vars, test_vars>>
    /\ wr.pc = "lock"
    /\ mutex = "free"
    /\ mutex' = "wr"
    /\ wr' = [wr EXCEPT !.pc = "loop"]
    /\ UNCHANGED <<ws, mem, disk, rd, hist>>

\* lines 916-947: one pass of the while loop, or the exit from it
write_block_loop ==
    /\ UNCHANGED <<fuzz_vars, test_vars>>
    /\ wr.pc = "loop"
    /\ IF wr.length = 0
       THEN /\ rd' = [rd EXCEPT !.pc = cond_signal(@)]
            /\ mutex' = "free"
            /\ wr' = [WrIdle EXCEPT !.pc = "ret", !.ret = 1]
            /\ UNCHANGED <<ws, mem, disk, hist>>
       ELSE LET bytes_to_copy == write_bytes_to_copy(ws, wr.length)
            IN  IF bytes_to_copy = 0
                THEN /\ wr' = [wr EXCEPT !.pc = "wait"]
                     /\ mutex' = "free"
                     /\ UNCHANGED <<ws, mem, disk, rd, hist>>
                ELSE /\ mem' = store(mem, ws, wr.data, wr.data_ptr, bytes_to_copy)
                     /\ ws' = [ws EXCEPT !.buffer_head = advance(ws, @, bytes_to_copy)]
                     /\ wr' = [wr EXCEPT !.data_ptr = @ + bytes_to_copy,
                                         !.length = @ - bytes_to_copy]
                     /\ UNCHANGED <<disk, mutex, rd, hist>>

\* line 931-932: pthread_cond_wait returns with the mutex held again
write_block_wake ==
    /\ UNCHANGED <<fuzz_vars, test_vars>>
    /\ wr.pc = "woken"
    /\ mutex = "free"
    /\ mutex' = "wr"
    /\ wr' = [wr EXCEPT !.pc = "loop"]
    /\ UNCHANGED <<ws, mem, disk, rd, hist>>

\* lines 893, 912, 947: the caller has write_block's result
write_block_return ==
    /\ UNCHANGED <<fuzz_vars, test_vars>>
    /\ wr.pc = "ret"
    /\ wr' = WrIdle
    /\ hist' = [hist EXCEPT !.call = "none"]
    /\ UNCHANGED <<ws, mem, disk, mutex, rd>>

\* line 1052: flush_stream does nothing on a channel that has no ring buffer
flush_stream_call ==
    /\ UNCHANGED <<fuzz_vars, test_vars>>
    /\ wr.pc = "idle"
    /\ hist.flushes < MaxFlush
    /\ wr' = [wr EXCEPT !.pc = IF ws.buffer_base # NULL THEN "flush_lock" ELSE "idle"]
    /\ hist' = [hist EXCEPT !.flushes = @ + 1]
    /\ UNCHANGED <<ws, mem, disk, mutex, rd>>

\* set_done counting the calls instead of setting the flag
set_done_counting(w) == [w EXCEPT !.done = @ + 1]

\* line 1054: the end-of-input flag
set_done(w) == [w EXCEPT !.done = 1]

\* flush_stream_signal left out: the flag is set and nobody is woken
flush_stream_no_signal(pc) == pc

\* line 1055: flush_stream signals cond_write, on which the reader waits
flush_stream_signal(pc) == cond_signal(pc)

\* line 1053
flush_stream_lock ==
    /\ UNCHANGED <<fuzz_vars, test_vars>>
    /\ wr.pc = "flush_lock"
    /\ mutex = "free"
    /\ mutex' = "wr"
    /\ wr' = [wr EXCEPT !.pc = "flush"]
    /\ UNCHANGED <<ws, mem, disk, rd, hist>>

\* lines 1054-1056
flush_stream_done ==
    /\ UNCHANGED <<fuzz_vars, test_vars>>
    /\ wr.pc = "flush"
    /\ ws' = set_done(ws)
    /\ rd' = [rd EXCEPT !.pc = flush_stream_signal(@)]
    /\ mutex' = "free"
    /\ wr' = [wr EXCEPT !.pc = "idle"]
    /\ UNCHANGED <<mem, disk, hist>>

\* ------------------------------------------------------------- read side

\* lines 964-974: the chunk copied by one pass of read_bytes' loop
read_bytes_to_copy(w, bcount) ==
    LET d == w.buffer_head - w.buffer_tail
        bytes_available == IF d < 0 THEN d + w.buffer_size ELSE d
        bytes_to_copy == IF bytes_available < bcount THEN bytes_available ELSE bcount
    IN  IF w.buffer_tail + bytes_to_copy > w.buffer_base + w.buffer_size
        THEN w.buffer_base + w.buffer_size - w.buffer_tail
        ELSE bytes_to_copy

\* memcpy (data_ptr, buffer_tail, n)
load(m, w, n) == [k \in 1..n |-> m[w.buffer_tail - w.buffer_base + k]]

\* end_of_input not looking at the flag: an empty ring ends the read
end_of_input_on_empty(w) == TRUE

\* line 985: with nothing pushed back and the ring empty, read_bytes gives up
\* only when end-of-input has been signaled
end_of_input(w) == w.done # 0

\* line 950: the reader asks for bcount bytes. run_test hands the decoder only
\* channels that have a ring buffer (lines 531-536 and 563-568); the callback
\* itself takes any channel.
read_bytes_call ==
    /\ UNCHANGED <<fuzz_vars, test_vars>>
    /\ rd.pc = "idle"
    /\ hist.released = 0
    /\ \E bcount \in 1..MaxCount :
        rd' = [pc |-> "lock", data |-> <<>>, bcount |-> bcount, req |-> bcount,
               ret |-> 0]
    /\ UNCHANGED <<ws, mem, disk, mutex, wr, hist>>

\* line 955. On a channel with no ring buffer initialize_stream has not
\* initialized the mutex (line 1046 is not reached): locking it is undefined,
\* it is taken as a zeroed mutex is where that is a free mutex, or the call
\* fails and read_bytes goes on without it.
read_bytes_lock ==
    /\ UNCHANGED <<fuzz_vars, test_vars>>
    /\ rd.pc = "lock"
    /\ mutex = "free"
    /\ mutex' \in (IF ws.buffer_size # 0 THEN {"rd"} ELSE {"rd", "free"})
    /\ rd' = [rd EXCEPT !.pc = "loop"]
    /\ UNCHANGED <<ws, mem, disk, wr, hist>>

\* lines 993-994: leaving the loop
read_bytes_exit ==
    /\ wr' = [wr EXCEPT !.pc = cond_signal(@)]
    /\ mutex' = "free"
    /\ rd' = [rd EXCEPT !.pc = "ret", !.ret = Len(rd.data)]
    /\ UNCHANGED <<ws, mem, disk, hist>>

\* lines 957-994: one pass of the while loop, or the exit from it
read_bytes_loop ==
    /\ UNCHANGED <<fuzz_vars, test_vars>>
    /\ rd.pc = "loop"
    /\ IF rd.bcount = 0 THEN read_bytes_exit
       ELSE IF ws.push_back # 0
       THEN /\ rd' = [rd EXCEPT !.data = Append(@, ws.push_back % 256),
                                !.bcount = @ - 1]
            /\ ws' = [ws EXCEPT !.push_back = 0]
            /\ UNCHANGED <<mem, disk, mutex, wr, hist>>
       ELSE IF ws.buffer_head # ws.buffer_tail
       THEN LET bytes_to_copy == read_bytes_to_copy(ws, rd.bcount)
            IN  /\ rd' = [rd EXCEPT !.data = @ \o load(mem, ws, bytes_to_copy),
                                    !.bcount = @ - bytes_to_copy]
                /\ ws' = [ws EXCEPT !.buffer_tail = advance(ws, @, bytes_to_copy),
                                    !.bytes_read = @ + bytes_to_copy]
                /\ UNCHANGED <<mem, disk, mutex, wr, hist>>
       ELSE IF end_of_input(ws) THEN read_bytes_exit
       ELSE /\ rd' = [rd EXCEPT !.pc = "wait"]
            /\ mutex' = "free"
            /\ UNCHANGED <<ws, mem, disk, wr, hist>>

\* line 989: pthread_cond_wait returns with the mutex held again
read_bytes_wake ==
    /\ UNCHANGED <<fuzz_vars, test_vars>>
    /\ rd.pc = "woken"
    /\ mutex = "free"
    /\ mutex' = "rd"
    /\ rd' = [rd EXCEPT !.pc = "loop"]
    /\ UNCHANGED <<ws, mem, disk, wr, hist>>

\* line 996: the caller has the bytes
read_bytes_return ==
    /\ UNCHANGED <<fuzz_vars, test_vars>>
    /\ rd.pc = "ret"
    /\ rd' = RdIdle
    /\ hist' = [hist EXCEPT !.consumed = IF hist.pushback = "any" THEN <<>>
                                          ELSE @ \o rd.data,
                            !.unreadable = IF rd.data = <<>> THEN None
                                           ELSE rd.data[Len(rd.data)],
                            !.pushed = None]
    /\ UNCHANGED <<ws, mem, disk, mutex, wr>>

\* lines 1018-1021: the pushback cell after push_back_byte (w, c), and its result
push_back_cell(w, c) == IF w.push_back = 0 THEN [w EXCEPT !.push_back = c] ELSE w
push_back_result(w, c) == IF w.push_back = 0 THEN c ELSE EOF

\* lines 1014-1022. In the history, a call that pushes back the last byte of
\* the read before it, and is not refused, takes that byte out of what the
\* consumer has consumed; after any other call what the consumer has consumed
\* is no longer followed.
push_back_byte ==
    /\ UNCHANGED <<fuzz_vars, test_vars>>
    /\ rd.pc = "idle"
    /\ ws.buffer_size # 0
    /\ hist.released = 0
    /\ \E c \in Bytes :
        LET result == push_back_result(ws, c)
            unread == hist.unreadable # None /\ c = hist.unreadable
            followed == unread /\ hist.pushback # "any"
        IN  /\ ws' = push_back_cell(ws, c)
            /\ rd' = [rd EXCEPT !.pc = "pb_ret", !.ret = result]
            /\ hist' = [hist EXCEPT
                          !.pushback = IF followed THEN "unread" ELSE "any",
                          !.consumed = IF ~followed THEN <<>>
                                       ELSE IF result # EOF THEN SubSeq(@, 1, Len(@) - 1)
                                       ELSE @,
                          !.unreadable = None,
                          !.pushed = IF ws.push_back = 0 THEN c ELSE @]
    /\ UNCHANGED <<mem, disk, mutex, wr>>

\* lines 1019, 1021: the caller has push_back_byte's result
push_back_return ==
    /\ UNCHANGED <<fuzz_vars, test_vars>>
    /\ rd.pc = "pb_ret"
    /\ rd' = RdIdle
    /\ UNCHANGED <<ws, mem, disk, mutex, wr, hist>>

\* set_pos_abs_channel doing the seek: the read counter is moved to pos
set_pos_abs_seeking(w, pos) == [w EXCEPT !.bytes_read = pos]

\* lines 1004-1007: the channel after set_pos_abs (id, pos), which only returns
set_pos_abs_channel(w, pos) == w

\* lines 999-1002. The result is -1 converted to uint32_t, 2^32 - 1; it is
\* written here as the -1 of the source.
get_pos ==
    /\ UNCHANGED <<fuzz_vars, test_vars>>
    /\ rd.pc = "idle"
    /\ rd' = [RdIdle EXCEPT !.pc = "get_pos", !.ret = -1]
    /\ UNCHANGED <<ws, mem, disk, mutex, wr, hist>>

\* lines 1004-1007
set_pos_abs ==
    /\ UNCHANGED <<fuzz_vars, test_vars>>
    /\ rd.pc = "idle"
    /\ \E pos \in {0, 1} : ws' = set_pos_abs_channel(ws, pos)
    /\ rd' = [RdIdle EXCEPT !.pc = "set_pos_abs", !.ret = 0]
    /\ UNCHANGED <<mem, disk, mutex, wr, hist>>

\* lines 1009-1012
set_pos_rel ==
    /\ UNCHANGED <<fuzz_vars, test_vars>>
    /\ rd.pc = "idle"
    /\ \E delta \in {-1, 1}, mode \in {0, 1, 2} :
        rd' = [RdIdle EXCEPT !.pc = "set_pos_rel", !.ret = -1]
    /\ UNCHANGED <<ws, mem, disk, mutex, wr, hist>>

\* lines 1024-1027
get_length ==
    /\ UNCHANGED <<fuzz_vars, test_vars>>
    /\ rd.pc = "idle"
    /\ rd' = [RdIdle EXCEPT !.pc = "get_length", !.ret = 0]
    /\ UNCHANGED <<ws, mem, disk, mutex, wr, hist>>

\* lines 1029-1032
can_seek ==
    /\ UNCHANGED <<fuzz_vars, test_vars>>
    /\ rd.pc = "idle"
    /\ rd' = [RdIdle EXCEPT !.pc = "can_seek", !.ret = 0]
    /\ UNCHANGED <<ws, mem, disk, mutex, wr, hist>>

\* the five callbacks of freader (lines 1034-1036) that move no byte
freader_stubs == {"get_pos", "set_pos_abs", "set_pos_rel", "get_length", "can_seek"}

\* the caller has the result of one of them
freader_return ==
    /\ UNCHANGED <<fuzz_vars, test_vars>>
    /\ rd.pc \in freader_stubs
    /\ rd' = RdIdle
    /\ UNCHANGED <<ws, mem, disk, mutex, wr, hist>>

\* free_stream_file with the pointer left as it is after fclose
free_stream_file_kept(w) == w

\* lines 1062-1065 and 1067-1070: the two pointers after free_stream
free_stream_file(w) == [w EXCEPT !.file = NULL]
free_stream_buffer(w) == [w EXCEPT !.buffer_base = NULL]

\* lines 1060-1071, called by run_test when no thread is inside the channel:
\* before the threads exist (lines 553, 579-580) or after pthread_join (lines
\* 743-744). The history counts the fclose and free calls.
free_stream ==
    /\ UNCHANGED <<fuzz_vars, test_vars>>
    /\ wr.pc = "idle"
    /\ rd.pc = "idle"
    /\ hist.released < MaxFree
    /\ ws' = free_stream_buffer(free_stream_file(ws))
    /\ mem' = IF ws.buffer_base # NULL THEN <<>> ELSE mem
    /\ hist' = [hist EXCEPT !.released = @ + 1,
                            !.fcloses = IF ws.file # NULL THEN @ + 1 ELSE @,
                            !.frees = IF ws.buffer_base # NULL THEN @ + 1 ELSE @]
    /\ UNCHANGED <<disk, mutex, wr, rd>>

\* pthread_cond_wait may return without a signal
spurious_wakeup ==
    /\ UNCHANGED <<fuzz_vars, test_vars>>
    /\ \E t \in {"wr", "rd"} :
        /\ IF t = "wr" THEN wr.pc = "wait" ELSE rd.pc = "wait"
        /\ wr' = IF t = "wr" THEN [wr EXCEPT !.pc = "woken"] ELSE wr
        /\ rd' = IF t = "rd" THEN [rd EXCEPT !.pc = "woken"] ELSE rd
    /\ UNCHANGED <<ws, mem, disk, mutex, hist>>

Next ==
    \/ write_block_call
    \/ write_block_lock
    \/ write_block_loop
    \/ write_block_wake
    \/ write_block_return
    \/ flush_stream_call
    \/ flush_stream_lock
    \/ flush_stream_done
    \/ read_bytes_call
    \/ read_bytes_lock
    \/ read_bytes_loop
    \/ read_bytes_wake
    \/ read_bytes_return
    \/ push_back_byte
    \/ push_back_return
    \/ get_pos
    \/ set_pos_abs
    \/ set_pos_rel
    \/ get_length
    \/ can_seek
    \/ freader_return
    \/ free_stream
    \/ spurious_wakeup

Spec == Init /\ [][Next]_vars

\* ------------------------------------------------- calls shorter than the ring
\* The channel as run_test uses it: a ring of BUFFER_SIZE bytes, far larger
\* than any block the encoder writes or any count the decoder asks for.  The
\* calls are those of Next, but that every write_block length and every
\* read_bytes count is below buffer_size.

\* write_block (lines 887-948) with length < buffer_size
short_write_block_call ==
    /\ write_block_call
    /\ wr'.length < ws.buffer_size

\* read_bytes (lines 950-997) with bcount < buffer_size
short_read_bytes_call ==
    /\ read_bytes_call
    /\ rd'.req < ws.buffer_size

ShortNext ==
    \/ short_write_block_call
    \/ write_block_lock
    \/ write_block_loop
    \/ write_block_wake
    \/ write_block_return
    \/ flush_stream_call
    \/ flush_stream_lock
    \/ flush_stream_done
    \/ short_read_bytes_call
    \/ read_bytes_lock
    \/ read_bytes_loop
    \/ read_bytes_wake
    \/ read_bytes_return
    \/ push_back_byte
    \/ push_back_return
    \/ get_pos
    \/ set_pos_abs
    \/ set_pos_rel
    \/ get_length
    \/ can_seek
    \/ freader_return
    \/ free_stream
    \/ spurious_wakeup

ShortSpec == Init /\ [][ShortNext]_vars

\* run_test with TEST_FLAG_WRITE_FILE, lines 538-584: the channel has a backing
\* file, with a ring buffer or none; or it is as CLEAR left it
FileSizes == {0, 2}
FileInit ==
    /\ stream_init(FileSizes, {File}, {0}) \/ stream_init({0}, {NULL}, {0})
    /\ random_seed = RandomSeed % SeedMod
    /\ fb = FbIdle
    /\ test = TestIdle
    /\ mx = MxIdle
    /\ rt = RtIdle
    /\ cv = CvIdle
    /\ dt = DtIdle
    /\ lp = LpIdle

FileSpec == FileInit /\ [][Next]_vars

\* the steps of the producer thread inside write_block and flush_stream, and
\* those of the consumer thread inside read_bytes and push_back_byte
producer_step ==
    \/ write_block_lock \/ write_block_loop \/ write_block_wake \/ write_block_return
    \/ flush_stream_call \/ flush_stream_lock \/ flush_stream_done
consumer_step ==
    \/ read_bytes_lock \/ read_bytes_loop \/ read_bytes_wake \/ read_bytes_return
    \/ push_back_return \/ freader_return

\* Fair scheduling: a thread that can take a step of the operation it is in
\* takes it, a thread that keeps finding the mutex free gets it, the consumer
\* keeps calling read_bytes and the producer calls flush_stream. Nothing makes
\* write_block be called, a byte be pushed back or a wait end without a signal.
Fairness ==
    /\ SF_vars(producer_step)
    /\ SF_vars(consumer_step)
    /\ SF_vars(read_bytes_call)

FairSpec == Spec /\ Fairness

\* Fair scheduling of the reader alone, and of a flush_stream that holds the mutex
ReaderFairness ==
    /\ WF_vars(read_bytes_lock \/ read_bytes_loop \/ read_bytes_wake)
    /\ WF_vars(flush_stream_done)

ReaderFairSpec == Spec /\ ReaderFairness

\* ------------------------------------------------------------ fuzz_buffer

\* lines 1081-1083: one round of frandom, ((seed << 4) - seed) ^ 1, on the low
\* SeedBits bits of the seed
frandom_round(seed) ==
    LET x == (15 * seed) % SeedMod
    IN  IF x % 2 = 0 THEN x + 1 ELSE x - 1

\* lines 1079-1085: the seed after one call of frandom. The value it returns
\* is made of the seed's high 32 bits, which the model does not keep: what is
\* computed from it (num_hits, index, delta_bits, the bit) is any value of
\* its range.
frandom_seed(seed) == frandom_round(frandom_round(frandom_round(seed)))

RECURSIVE frandom_seeds(_, _)
frandom_seeds(seed, n) == IF n = 0 THEN seed ELSE frandom_seeds(frandom_seed(seed), n - 1)

\* frandom_set_seed left out at the end of fuzz_buffer
seed_after_fuzz_kept(seed, saved_seed) == seed

\* lines 881, 1092-1095: frandom_set_seed (saved_seed)
seed_after_fuzz(seed, saved_seed) == saved_seed

\* line 878: data_ptr [index] ^= 1 << bit
toggle(value, bit) ==
    IF (value \div (2 ^ bit)) % 2 = 1 THEN value - 2 ^ bit ELSE value + 2 ^ bit

\* toggle_again without the comparison with the initial value
toggle_while_bits_left(delta_bits, value, initial_value) == delta_bits > 0

\* line 877: `while (delta_bits-- > 0 || data_ptr [index] == initial_value)`
toggle_again(delta_bits, value, initial_value) ==
    delta_bits > 0 \/ value = initial_value

\* the blocks handed to fuzz_buffer: every block of 1..MaxFuzzLen bytes, each
\* byte all zeros or all ones
FuzzBlocks ==
    UNION {[1..n -> {0, 2 ^ ByteBits - 1}] : n \in 1..MaxFuzzLen}

\* the values frandom returns, lines 1079-1085: (random_seed >> 32) / 2^32 is
\* one of 2^32 evenly spaced values in 0.0 <= n < 1.0; the model keeps
\* RandomSteps of them, n = r / RandomSteps for r in Randoms
Randoms == 0..(RandomSteps - 1)

\* the fuzz periods a block is corrupted with
Periods == 1..MaxPeriod

RECURSIVE pow(_, _)
\* pow of <math.h> on whole numbers, with pow (0, 0) = 1
pow(b, e) == IF e = 0 THEN 1 ELSE b * pow(b, e - 1)

RECURSIVE hit_ways(_, _)
\* lines 838-839: the product of (length - hits) / (hits + 1) for hits below
\* num_hits, a whole number at every step
hit_ways(length, num_hits) ==
    IF num_hits = 0 THEN 1
    ELSE (hit_ways(length, num_hits - 1) * (length - num_hits + 1)) \div num_hits

\* lines 834-842: hit_probability times period^length, which is a whole number:
\* ((period - 1) / period)^(length - num_hits) times, for each hit,
\* (length - hits) / (period * (hits + 1))
hit_probability(period, length, num_hits) ==
    pow(period - 1, length - num_hits) * hit_ways(length, num_hits)

\* the loop at lines 857-865 with no limit but the length
hit_cap_none(length) == length + 1

\* line 863: `if (num_hits == (length + 1) / 2) break;`
hit_cap(length) == (length + 1) \div 2

RECURSIVE count_hits(_, _, _, _, _)
\* lines 857-865: probability_accum (times period^length) and num_hits after
\* the test of num_hits; fuzz_factor is r / RandomSteps
count_hits(period, length, r, probability_accum, num_hits) ==
    LET accum == probability_accum + hit_probability(period, length, num_hits)
    IN  IF accum * RandomSteps < r * pow(period, length)
        THEN IF num_hits + 1 = hit_cap(length) THEN num_hits + 1
             ELSE count_hits(period, length, r, accum, num_hits + 1)
        ELSE num_hits

\* lines 868-873: index = floor (frandom () * length), brought back into the
\* block if it came out as length
hit_index(r, length) ==
    LET index == (r * length) \div RandomSteps
    IN  IF index = length THEN index - 1 ELSE index

\* lines 850-865: the seed is saved, fuzz_factor drawn and the number of hits
\* fixed by the loop. The history keeps the block as it was on entry, the
\* number of hits fixed and, for each byte, the number of hits that selected
\* it; it keeps the period and the factor drawn until the hit loop is entered.
fuzz_buffer_call ==
    /\ UNCHANGED <<stream_vars, test_vars>>
    /\ fb.pc = "idle"
    /\ \E data \in FuzzBlocks, fuzz_period \in Periods, fuzz_factor \in Randoms :
        LET num_hits == count_hits(fuzz_period, Len(data), fuzz_factor, 0, 0)
        IN  fb' = [fb EXCEPT !.pc = "hits", !.data = data, !.length = Len(data),
                             !.num_hits = num_hits, !.saved_seed = random_seed,
                             !.entry = data, !.hits = [i \in 1..Len(data) |-> 0],
                             !.fuzz_period = fuzz_period,
                             !.fuzz_factor = fuzz_factor, !.count = num_hits]
    /\ random_seed' = frandom_seed(random_seed)

\* lines 867-875, 881: the next hit draws its index and its number of bits;
\* with no hit left the seed is restored
fuzz_buffer_hit ==
    /\ UNCHANGED <<stream_vars, test_vars>>
    /\ fb.pc = "hits"
    /\ IF fb.num_hits = 0
       THEN /\ fb' = [fb EXCEPT !.pc = "ret", !.fuzz_period = 0, !.fuzz_factor = 0]
            /\ random_seed' = seed_after_fuzz(random_seed, fb.saved_seed)
       ELSE /\ \E r \in Randoms, delta_bits \in 0..ByteBits :
                LET index == hit_index(r, fb.length)
                IN  fb' = [fb EXCEPT !.pc = "toggle", !.num_hits = @ - 1,
                                     !.index = index, !.delta_bits = delta_bits,
                                     !.initial_value = fb.data[index + 1],
                                     !.hits[index + 1] = @ + 1,
                                     !.fuzz_period = 0, !.fuzz_factor = 0]
            /\ random_seed' = frandom_seeds(random_seed, 2)

\* lines 877-878: one test of the inner loop, and one toggle if it goes on
fuzz_buffer_toggle ==
    /\ UNCHANGED <<stream_vars, test_vars>>
    /\ fb.pc = "toggle"
    /\ IF toggle_again(fb.delta_bits, fb.data[fb.index + 1], fb.initial_value)
       THEN /\ \E bit \in 0..(ByteBits - 1) :
                fb' = [fb EXCEPT !.delta_bits = @ - 1,
                                 !.data[fb.index + 1] = toggle(@, bit)]
            /\ random_seed' = frandom_seed(random_seed)
       ELSE /\ fb' = [fb EXCEPT !.pc = "hits", !.delta_bits = @ - 1]
            /\ UNCHANGED random_seed

\* line 882: the caller has the block
fuzz_buffer_return ==
    /\ UNCHANGED <<stream_vars, test_vars>>
    /\ fb.pc = "ret"
    /\ fb' = [FbIdle EXCEPT !.drawn = fb.drawn]
    /\ UNCHANGED random_seed

\* a draw of signal synthesis (the generators, lines 1097 on), between two
\* blocks; the history counts these draws
frandom ==
    /\ UNCHANGED <<stream_vars, test_vars>>
    /\ fb.pc = "idle"
    /\ fb.drawn < MaxDraws
    /\ fb' = [fb EXCEPT !.drawn = @ + 1]
    /\ random_seed' = frandom_seed(random_seed)

FuzzInit ==
    /\ stream_init({0}, {NULL}, {0})
    /\ random_seed = RandomSeed % SeedMod
    /\ fb = FbIdle
    /\ test = TestIdle
    /\ mx = MxIdle
    /\ rt = RtIdle
    /\ cv = CvIdle
    /\ dt = DtIdle
    /\ lp = LpIdle

FuzzNext ==
    \/ fuzz_buffer_call
    \/ fuzz_buffer_hit
    \/ fuzz_buffer_toggle
    \/ fuzz_buffer_return
    \/ frandom

FuzzSpec == FuzzInit /\ [][FuzzNext]_vars

\* --------------------------------------------------------------- run_test

\* lossless with the correction stream not looked at: hybrid is never lossless
lossless_unless_hybrid(t) == ~t.hybrid

\* line 446: the configuration is lossless when it is not hybrid, or when it
\* creates a correction stream that the decoder is given
lossless(t) == ~t.hybrid \/ (t.create_wvc /\ ~t.ignore_wvc)

\* lines 752-753: what makes run_test print the two sides instead of "pass"
mismatch(t) ==
    \/ t.num_errors # 0
    \/ t.sample_count # t.total_encoded_samples
    \/ (lossless(t) /\ t.md5_encoded # t.md5_decoded)

\* run_test_result with the fuzz period not looked at
run_test_result_strict(t) ==
    IF ~t.no_decode /\ mismatch(t) THEN t.num_errors + 1 ELSE 0

\* lines 746-766: the value run_test returns once the decoder thread is joined
run_test_result(t) ==
    IF ~t.no_decode /\ mismatch(t)
    THEN (IF t.fuzz_period # 0 THEN 0 ELSE t.num_errors + 1)
    ELSE 0

\* run_test after pthread_join (line 735; decode_thread always ends with
\* pthread_exit (NULL), so term_value is null): its arguments and what the two
\* sides have counted and hashed. With TEST_FLAG_NO_DECODE there is no decoder
\* and wv_decoder is as CLEAR left it; the encoder's hash is then 1, nonzero.
TestRuns ==
    {t \in [pc : {"verdict"}, ret : {0}, fuzz_period : {0, 1}, no_decode : BOOLEAN,
            hybrid : BOOLEAN, create_wvc : BOOLEAN, ignore_wvc : BOOLEAN,
            num_errors : 0..MaxErrors, sample_count : 0..MaxSamples,
            total_encoded_samples : 0..MaxSamples,
            md5_encoded : {1}, md5_decoded : {0, 1}] :
        t.no_decode => (t.num_errors = 0 /\ t.sample_count = 0 /\ t.md5_decoded = 0)}

\* lines 746-766
run_test_verdict ==
    /\ UNCHANGED <<stream_vars, fuzz_vars, mx, rt, cv, dt, lp>>
    /\ test.pc = "verdict"
    /\ test' = [test EXCEPT !.pc = "ret", !.ret = run_test_result(test)]

TestInit ==
    /\ stream_init({0}, {NULL}, {0})
    /\ random_seed = RandomSeed % SeedMod
    /\ fb = FbIdle
    /\ test \in TestRuns
    /\ mx = MxIdle
    /\ rt = RtIdle
    /\ cv = CvIdle
    /\ dt = DtIdle
    /\ lp = LpIdle

TestNext == run_test_verdict

TestSpec == TestInit /\ [][TestNext]_vars

\* ------------------------------------------------------- the test matrix

\* main, lines 249-270: the four suites in the order main runs them are pure
\* lossless, hybrid lossless, hybrid lossy, and hybrid lossless with the
\* correction stream ignored on decode
Suites == 1..4
suite_runs(m, k) ==
    CASE k = 1 -> TRUE
      [] k = 2 -> ~m.no_hybrid /\ m.fuzz_period = 0
      [] k = 3 -> ~m.no_hybrid /\ ~m.no_lossy
      [] k = 4 -> ~m.no_hybrid /\ ~m.no_lossy

\* lines 255, 262, 266: every suite but the first sets CONFIG_HYBRID_FLAG
suite_hybrid(k) == k # 1

\* run_test_size_modes, lines 289-340: the ten sizes in the order of the code
Sizes == 1..10
size_runs(m, k) ==
    CASE k = 1 -> TRUE
      [] k = 2 -> m.exhaustive
      [] k = 3 -> TRUE
      [] k = 4 -> m.exhaustive /\ ~m.no_floats
      [] k = 5 -> TRUE
      [] k = 6 -> m.exhaustive /\ ~m.no_floats
      [] k = 7 -> m.exhaustive
      [] k = 8 -> m.exhaustive /\ ~m.no_floats
      [] k = 9 -> m.exhaustive /\ ~m.no_floats /\ ~suite_hybrid(m.suite)
      [] k = 10 -> ~m.no_floats

\* run_test_speed_modes, lines 352-368: fast, the base mode, high, very high
Speeds == 1..4
speed_runs(m, k) == k = 2 \/ ~m.no_speeds

\* run_test_extra_modes, lines 382-416: the base mode 0, then the extra modes
\* 1..6 unless TEST_FLAG_NO_EXTRAS
Extras == 0..6
extra_runs(m, k) ==
    CASE k = 0 -> TRUE
      [] k \in {1, 3, 4, 6} -> ~m.no_extras /\ m.exhaustive
      [] k \in {2, 5} -> ~m.no_extras /\ m.default

\* the statements of a function in their order: of the slots left that run,
\* the first; None when the function has come to its `return 0`
next_slot(left) ==
    IF left = {} THEN None ELSE CHOOSE k \in left : \A j \in left : k <= j

\* status_failed with the status not looked at: the function goes on
status_failed_never(res) == FALSE

\* `if (res) return res;` and main's `if (res) goto done;`
status_failed(res) == res # 0

\* main after its command line is read: the flags, fuzz_period 0 or not.
\* failed is the first nonzero status a run_test call has returned, after
\* whether a run_test call was started later than that.
MatrixStart ==
    [pc : {"main"}, default : BOOLEAN, exhaustive : BOOLEAN, no_floats : BOOLEAN,
     no_hybrid : BOOLEAN, no_extras : BOOLEAN, no_lossy : BOOLEAN, no_speeds : BOOLEAN,
     fuzz_period : {0, 1}, suite : {0}, size : {0}, speed : {0}, extra : {None},
     res : {0}, ret : {0}, failed : {0}, after : {FALSE}]

\* lines 244-247: with neither --default nor --exhaustive main prints its usage
main_flags ==
    /\ UNCHANGED <<stream_vars, fuzz_vars, test, rt, cv, dt, lp>>
    /\ mx.pc = "main"
    /\ mx' = IF ~(mx.default \/ mx.exhaustive)
             THEN [mx EXCEPT !.pc = "exit", !.ret = 1]
             ELSE [mx EXCEPT !.pc = "suites"]

\* lines 249-270: main goes to its next suite
main_suite ==
    /\ UNCHANGED <<stream_vars, fuzz_vars, test, rt, cv, dt, lp>>
    /\ mx.pc = "suites"
    /\ LET k == next_slot({j \in Suites : j > mx.suite /\ suite_runs(mx, j)})
       IN  mx' = IF k = None
                 THEN [mx EXCEPT !.pc = "done"]
                 ELSE [mx EXCEPT !.pc = "sizes", !.suite = k, !.size = 0]

\* lines 289-342: run_test_size_modes goes to its next size, or returns 0
size_modes ==
    /\ UNCHANGED <<stream_vars, fuzz_vars, test, rt, cv, dt, lp>>
    /\ mx.pc = "sizes"
    /\ LET k == next_slot({j \in Sizes : j > mx.size /\ size_runs(mx, j)})
       IN  mx' = IF k = None
                 THEN [mx EXCEPT !.pc = "main_res", !.res = 0]
                 ELSE [mx EXCEPT !.pc = "speeds", !.size = k, !.speed = 0]

\* lines 352-370: run_test_speed_modes goes to its next speed, or returns 0
speed_modes ==
    /\ UNCHANGED <<stream_vars, fuzz_vars, test, rt, cv, dt, lp>>
    /\ mx.pc = "speeds"
    /\ LET k == next_slot({j \in Speeds : j > mx.speed /\ speed_runs(mx, j)})
       IN  mx' = IF k = None
                 THEN [mx EXCEPT !.pc = "size_res", !.res = 0]
                 ELSE [mx EXCEPT !.pc = "extras", !.speed = k, !.extra = None]

\* lines 382-418: run_test_extra_modes calls run_test for its next mode, or
\* returns 0
extra_modes ==
    /\ UNCHANGED <<stream_vars, fuzz_vars, test, rt, cv, dt, lp>>
    /\ mx.pc = "extras"
    /\ LET k == next_slot({j \in Extras : j > mx.extra /\ extra_runs(mx, j)})
       IN  mx' = IF k = None
                 THEN [mx EXCEPT !.pc = "speed_res", !.res = 0]
                 ELSE [mx EXCEPT !.pc = "run_test", !.extra = k,
                                 !.after = @ \/ mx.failed # 0]

\* lines 440-767: run_test returns 0, 1, or the decoder's error count plus 1
run_test_returns ==
    /\ UNCHANGED <<stream_vars, fuzz_vars, test, rt, cv, dt, lp>>
    /\ mx.pc = "run_test"
    /\ \E res \in 0..(MaxErrors + 1) :
        mx' = [mx EXCEPT !.pc = "extra_res", !.res = res,
                         !.failed = IF @ = 0 THEN res ELSE @]

\* lines 383, 390, 395, 400, 405, 410, 415
extra_modes_check ==
    /\ UNCHANGED <<stream_vars, fuzz_vars, test, rt, cv, dt, lp>>
    /\ mx.pc = "extra_res"
    /\ mx' = [mx EXCEPT !.pc = IF status_failed(mx.res) THEN "speed_res" ELSE "extras"]

\* lines 354, 358, 362, 367
speed_modes_check ==
    /\ UNCHANGED <<stream_vars, fuzz_vars, test, rt, cv, dt, lp>>
    /\ mx.pc = "speed_res"
    /\ mx' = [mx EXCEPT !.pc = IF status_failed(mx.res) THEN "size_res" ELSE "speeds"]

\* lines 291, 296, 301, ..., 339
size_modes_check ==
    /\ UNCHANGED <<stream_vars, fuzz_vars, test, rt, cv, dt, lp>>
    /\ mx.pc = "size_res"
    /\ mx' = [mx EXCEPT !.pc = IF status_failed(mx.res) THEN "main_res" ELSE "sizes"]

\* lines 251, 257, 263, 268
main_check ==
    /\ UNCHANGED <<stream_vars, fuzz_vars, test, rt, cv, dt, lp>>
    /\ mx.pc = "main_res"
    /\ mx' = [mx EXCEPT !.pc = IF status_failed(mx.res) THEN "done" ELSE "suites"]

\* lines 272-279: main returns res
main_done ==
    /\ UNCHANGED <<stream_vars, fuzz_vars, test, rt, cv, dt, lp>>
    /\ mx.pc = "done"
    /\ mx' = [mx EXCEPT !.pc = "exit", !.ret = mx.res]

MatrixInit ==
    /\ stream_init({0}, {NULL}, {0})
    /\ random_seed = RandomSeed % SeedMod
    /\ fb = FbIdle
    /\ test = TestIdle
    /\ mx \in MatrixStart
    /\ rt = RtIdle
    /\ cv = CvIdle
    /\ dt = DtIdle
    /\ lp = LpIdle

MatrixNext ==
    \/ main_flags
    \/ main_suite
    \/ size_modes
    \/ speed_modes
    \/ extra_modes
    \/ run_test_returns
    \/ extra_modes_check
    \/ speed_modes_check
    \/ size_modes_check
    \/ main_check
    \/ main_done

MatrixSpec == MatrixInit /\ [][MatrixNext]_vars

\* ------------------------------------------------- run_test, start to end

\* line 428: the size of the ring buffers run_test asks for, 1000000 in the
\* code; the model's rings have room for BUFFER_SIZE - 1 bytes
BUFFER_SIZE == 2

\* decode_enabled with the flag not looked at
decode_always(r) == TRUE

\* lines 530, 589, 734: `!(test_flags & TEST_FLAG_NO_DECODE)`
decode_enabled(r) == ~r.no_decode

\* lines 530-536 and 561-568: the sizes handed to initialize_stream
wv_buffer_size(r) == IF decode_enabled(r) THEN BUFFER_SIZE ELSE 0
wvc_buffer_size(r) == IF ~(r.ignore_wvc \/ r.no_decode) THEN BUFFER_SIZE ELSE 0

\* lines 563-564: the decoder is given the correction channel
wvc_decoded(r) == r.create_wvc /\ ~(r.ignore_wvc \/ r.no_decode)

\* encoder_active with the calls after WavpackStreamCloseFile counted in
encoder_active_late(r) == r.fed /\ r.pc \in {"stream", "drain", "flush", "join"}

\* lines 634-716: the encoder emits blocks inside WavpackStreamPackSamples,
\* WavpackStreamFlushSamples and WavpackStreamCloseFile
encoder_active(r) == r.fed /\ r.pc \in {"stream", "drain"}

\* thread_ended with the thread not waited for
thread_ended_any(r) == TRUE

\* line 735: pthread_join returns when decode_thread has ended
thread_ended(r) == r.thread = "exited"

\* CLEAR (wvc_stream), line 484: the correction channel, of which the model
\* keeps the ring's size, the file, the end-of-input flag, and in its history
\* the flush_stream and free_stream calls, whether a block was written to it,
\* and whether one was written after a flush_stream call
WvcStream ==
    [buffer_size |-> 0, file |-> NULL, done |-> 0, flushes |-> 0, frees |-> 0,
     written |-> FALSE, late |-> FALSE]

\* run_test at line 481: its flags (a capture file is due when
\* TEST_FLAG_WRITE_FILE is set and test_number is in a range, lines 538-558);
\* main sets TEST_FLAG_IGNORE_WVC with CONFIG_CREATE_WVC only (lines 266-267).
\* thread is "none", "running", "exited" or "joined"; fed is whether a frame
\* was handed to the encoder, closed whether WavpackStreamCloseFile has
\* returned, failed whether a capture file could not be created.
RunStart ==
    {r \in [pc : {"setup"}, no_decode : BOOLEAN, create_wvc : BOOLEAN,
            ignore_wvc : BOOLEAN, write_file : BOOLEAN, thread : {"none"},
            fed : {FALSE}, closed : {FALSE}, failed : {FALSE}, ret : {0},
            wvc : {WvcStream}] :
        r.ignore_wvc => r.create_wvc}

\* lines 530-536
run_initialize_wv ==
    /\ UNCHANGED <<fuzz_vars, test, mx, cv, dt, lp>>
    /\ rt.pc = "setup"
    /\ ws' = initialize_stream(ws, wv_buffer_size(rt), 0)
    /\ mem' = [i \in 1..ws'.buffer_size |-> Uninit]
    /\ rt' = [rt EXCEPT !.pc = "fopen_wv"]
    /\ UNCHANGED <<disk, mutex, wr, rd, hist>>

\* lines 538-558: fopen gives a file, or NULL
run_fopen_wv ==
    /\ UNCHANGED <<fuzz_vars, test, mx, cv, dt, lp>>
    /\ rt.pc = "fopen_wv"
    /\ \E file \in (IF rt.write_file THEN {File, NULL} ELSE {NULL}) :
        /\ ws' = [ws EXCEPT !.file = file]
        /\ rt' = IF rt.write_file /\ file = NULL
                 THEN [rt EXCEPT !.pc = "fail_wv", !.failed = TRUE]
                 ELSE [rt EXCEPT !.pc = "init_wvc"]
    /\ UNCHANGED <<mem, disk, mutex, wr, rd, hist>>

\* lines 560-584: with CONFIG_CREATE_WVC the correction channel is initialized
\* and, with a capture file, given a file of its own
run_initialize_wvc ==
    /\ UNCHANGED <<stream_vars, fuzz_vars, test, mx, cv, dt, lp>>
    /\ rt.pc = "init_wvc"
    /\ IF ~rt.create_wvc
       THEN rt' = [rt EXCEPT !.pc = "open"]
       ELSE \E file \in (IF rt.write_file THEN {File, NULL} ELSE {NULL}) :
                rt' = [rt EXCEPT !.wvc.buffer_size = wvc_buffer_size(rt),
                                 !.wvc.file = file,
                                 !.failed = rt.write_file /\ file = NULL,
                                 !.pc = IF rt.write_file /\ file = NULL
                                        THEN "fail_wvc" ELSE "open"]

\* lines 553 and 579; lines 743: free_stream (&wv_stream)
run_free_wv ==
    /\ rt.pc \in {"fail_wv", "fail_wvc", "free"}
    /\ hist.released = 0
    /\ free_stream

\* lines 554-555: return 1
run_fail_wv ==
    /\ UNCHANGED <<stream_vars, fuzz_vars, test, mx, cv, dt, lp>>
    /\ rt.pc = "fail_wv"
    /\ hist.released = 1
    /\ rt' = [rt EXCEPT !.pc = "ret", !.ret = 1]

\* lines 580-581: free_stream (&wvc_stream); return 1; and line 744
run_free_wvc ==
    /\ UNCHANGED <<stream_vars, fuzz_vars, test, mx, cv, dt, lp>>
    /\ rt.pc \in {"fail_wvc", "free"}
    /\ hist.released = 1
    /\ rt' = [rt EXCEPT !.wvc.frees = @ + 1, !.wvc.file = NULL,
                        !.pc = IF rt.pc = "free" THEN "verdict" ELSE "ret",
                        !.ret = IF rt.pc = "free" THEN 0 ELSE 1]

\* line 587: WavpackStreamOpenFileOutput takes the callback and the channels
run_open_output ==
    /\ UNCHANGED <<stream_vars, fuzz_vars, test, mx, cv, dt, lp>>
    /\ rt.pc = "open"
    /\ rt' = [rt EXCEPT !.pc = "create"]

\* lines 589-590
run_pthread_create ==
    /\ UNCHANGED <<stream_vars, fuzz_vars, test, mx, cv, dt, lp>>
    /\ rt.pc = "create"
    /\ rt' = [rt EXCEPT !.pc = "config",
                        !.thread = IF decode_enabled(rt) THEN "running" ELSE "none"]

\* lines 592-632: the configuration, WavpackStreamPackInit
run_pack_init ==
    /\ UNCHANGED <<stream_vars, fuzz_vars, test, mx, cv, dt, lp>>
    /\ rt.pc = "config"
    /\ rt' = [rt EXCEPT !.pc = "stream"]

\* lines 634-706: one frame is synthesized and handed to
\* WavpackStreamPackSamples
run_pack_samples ==
    /\ UNCHANGED <<stream_vars, fuzz_vars, test, mx, cv, dt, lp>>
    /\ rt.pc = "stream"
    /\ wr.pc = "idle"
    /\ rt' = [rt EXCEPT !.fed = TRUE]

\* the encoder calls write_block for the primary channel
run_write_block ==
    /\ encoder_active(rt)
    /\ write_block_call

\* the encoder calls write_block for the correction channel
run_write_block_wvc ==
    /\ UNCHANGED <<stream_vars, fuzz_vars, test, mx, cv, dt, lp>>
    /\ encoder_active(rt)
    /\ rt.create_wvc
    /\ wr.pc = "idle"
    /\ rt' = [rt EXCEPT !.wvc.written = TRUE,
                        !.wvc.late = @ \/ rt.wvc.flushes # 0]

\* lines 708-714: the loop is left, WavpackStreamFlushSamples
run_flush_samples ==
    /\ UNCHANGED <<stream_vars, fuzz_vars, test, mx, cv, dt, lp>>
    /\ rt.pc = "stream"
    /\ rt.fed
    /\ wr.pc = "idle"
    /\ rt' = [rt EXCEPT !.pc = "drain"]

\* line 716: WavpackStreamCloseFile has returned
run_close_file ==
    /\ UNCHANGED <<stream_vars, fuzz_vars, test, mx, cv, dt, lp>>
    /\ rt.pc = "drain"
    /\ wr.pc = "idle"
    /\ rt' = [rt EXCEPT !.pc = "flush", !.closed = TRUE]

\* line 731: flush_stream (&wv_stream)
run_flush_wv ==
    /\ rt.pc = "flush"
    /\ hist.flushes = 0
    /\ flush_stream_call

\* line 732: flush_stream (&wvc_stream)
run_flush_wvc ==
    /\ UNCHANGED <<stream_vars, fuzz_vars, test, mx, cv, dt, lp>>
    /\ rt.pc = "flush"
    /\ hist.flushes = 1
    /\ wr.pc = "idle"
    /\ rt' = [rt EXCEPT !.pc = "join", !.wvc.flushes = @ + 1,
                        !.wvc.done = IF rt.wvc.buffer_size # 0 THEN 1 ELSE @]

\* lines 734-741: decode_thread always ends with pthread_exit (NULL), so
\* term_value is null
run_join ==
    /\ UNCHANGED <<stream_vars, fuzz_vars, test, mx, cv, dt, lp>>
    /\ rt.pc = "join"
    /\ decode_enabled(rt) => thread_ended(rt)
    /\ rt' = [rt EXCEPT !.pc = "free",
                        !.thread = IF @ = "exited" THEN "joined" ELSE @]

\* lines 746-766: run_test returns its verdict
run_return ==
    /\ UNCHANGED <<stream_vars, fuzz_vars, test, mx, cv, dt, lp>>
    /\ rt.pc = "verdict"
    /\ \E res \in 0..(MaxErrors + 1) : rt' = [rt EXCEPT !.pc = "ret", !.ret = res]

\* decode_thread, lines 782 and 808: the decoder reads the primary channel
decode_read_bytes ==
    /\ rt.thread = "running"
    /\ read_bytes_call

\* the loops of decode_thread left without a look at the done flags
end_of_input_assumed(w, r) == TRUE

\* lines 790 and 815: `wd->wv_stream->done || (wd->wvc_stream &&
\* wd->wvc_stream->done)`
end_of_input_seen(w, r) == w.done # 0 \/ (wvc_decoded(r) /\ r.wvc.done # 0)

\* decode_thread, lines 790 and 816: with no decoder opened, or no samples
\* unpacked, the thread leaves its loop when it finds a done flag set
decode_thread_exit ==
    /\ UNCHANGED <<stream_vars, fuzz_vars, test, mx, cv, dt, lp>>
    /\ rt.thread = "running"
    /\ rd.pc = "idle"
    /\ end_of_input_seen(ws, rt)
    /\ rt' = [rt EXCEPT !.thread = "exited"]

RunInit ==
    /\ stream_init({0}, {NULL}, {0})
    /\ random_seed = RandomSeed % SeedMod
    /\ fb = FbIdle
    /\ test = TestIdle
    /\ mx = MxIdle
    /\ rt \in RunStart
    /\ cv = CvIdle
    /\ dt = DtIdle
    /\ lp = LpIdle

\* the steps of run_test's thread, and those of decode_thread
run_step ==
    \/ run_initialize_wv
    \/ run_fopen_wv
    \/ run_initialize_wvc
    \/ run_free_wv
    \/ run_fail_wv
    \/ run_free_wvc
    \/ run_open_output
    \/ run_pthread_create
    \/ run_pack_init
    \/ run_pack_samples
    \/ run_write_block
    \/ run_write_block_wvc
    \/ write_block_lock
    \/ write_block_loop
    \/ write_block_wake
    \/ write_block_return
    \/ run_flush_samples
    \/ run_close_file
    \/ run_flush_wv
    \/ flush_stream_lock
    \/ flush_stream_done
    \/ run_flush_wvc
    \/ run_join
    \/ run_return
decode_step ==
    \/ decode_read_bytes
    \/ read_bytes_lock
    \/ read_bytes_loop
    \/ read_bytes_wake
    \/ read_bytes_return
    \/ decode_thread_exit

RunNext == run_step \/ decode_step \/ spurious_wakeup

RunSpec == RunInit /\ [][RunNext]_vars

\* Fair scheduling: each thread takes a step when it can take one, and
\* decode_thread does not go on reading for ever a channel that has ended
RunFairness ==
    /\ SF_vars(run_step)
    /\ SF_vars(decode_step)
    /\ SF_vars(decode_thread_exit)

RunFairSpec == RunSpec /\ RunFairness

\* ------------------------------------------------------- sample conversion

\* the largest int32_t, line 1217's imax: samples are int32_t, and the sums
\* below are taken modulo 2^32 as the code's are
INT32_MAX == 2147483647
INT32_MIN == (0 - INT32_MAX) - 1

MaxStore == 2       \* most samples handed to store_samples in one call
FloatShift == 2     \* float samples are the multiples of 2^-FloatShift in [-2, 2]
MaxFill == 3        \* bits of the trailing-zero fill drawn freely
MaxSeconds == 2     \* largest num_seconds handed to run_test

\* lines 436-437
SAMPLE_RATE == 44100
ENCODE_SAMPLES == 128

\* `(unsigned char) (temp >> 8 * k)`: byte k of temp, byte 0 the lowest
byte(temp, k) == (temp \div (256 ^ k)) % 256

\* `*src + 0x80`, `+ 0x8000`, `+ 0x800000`, `+ 0x80000000` stored to an
\* int32_t: the sum modulo 2^32
add_bias(sample, bps) ==
    IF bps = 4
    THEN (IF sample < 0 THEN (sample + INT32_MAX) + 1 ELSE (sample - INT32_MAX) - 1)
    ELSE LET bias == 128 * (256 ^ (bps - 1))
         IN  IF sample > INT32_MAX - bias
             THEN ((sample - INT32_MAX) - 1) + ((bias - INT32_MAX) - 1)
             ELSE sample + bias

\* the bytes of one sample in the order of the little-endian functions (lines
\* 1270-1352), lowest byte first, and of the big-endian ones (lines
\* 1354-1444), highest of the bps bytes first
little_endian_reversed(temp, bps) == [k \in 1..bps |-> byte(temp, bps - k)]
little_endian(temp, bps) == [k \in 1..bps |-> byte(temp, k - 1)]
big_endian(temp, bps) == [k \in 1..bps |-> byte(temp, bps - k)]

\* `*dptr++ = ...` in the loop over the samples: what is left at dst when
\* sample n is stored as the bps bytes pieces[n], the samples in their order
stored(pieces, bps) ==
    [i \in 1..(Len(pieces) * bps) |-> pieces[((i - 1) \div bps) + 1][((i - 1) % bps) + 1]]

\* lines 1270-1444, bps in 1..4
store_little_endian_unsigned_samples(src, bps) ==
    stored([n \in 1..Len(src) |-> little_endian(add_bias(src[n], bps), bps)], bps)
store_little_endian_signed_samples(src, bps) ==
    stored([n \in 1..Len(src) |-> little_endian(src[n], bps)], bps)
store_big_endian_unsigned_samples(src, bps) ==
    stored([n \in 1..Len(src) |-> big_endian(add_bias(src[n], bps), bps)], bps)
store_big_endian_signed_samples(src, bps) ==
    stored([n \in 1..Len(src) |-> big_endian(src[n], bps)], bps)

\* lines 1256-1268: qmode is given by its bits QMODE_BIG_ENDIAN,
\* QMODE_SIGNED_BYTES, QMODE_UNSIGNED_WORDS, and whether one of the bits of
\* QMODE_DSD_AUDIO is set. The result is the bytes left at dst; the pointer
\* returned is dst plus their number.
store_samples(src, qmode, bps) ==
    IF qmode.big_endian
    THEN (IF qmode.unsigned_words \/ (bps = 1 /\ ~qmode.signed_bytes)
          THEN store_big_endian_unsigned_samples(src, bps)
          ELSE store_big_endian_signed_samples(src, bps))
    ELSE IF qmode.unsigned_words \/ (bps = 1 /\ ~(qmode.signed_bytes \/ qmode.dsd_audio))
    THEN store_little_endian_unsigned_samples(src, bps)
    ELSE store_little_endian_signed_samples(src, bps)

\* int32_t samples: the ends of the range of each size and their neighbours
Samples ==
    {0, 1, 0 - 1, 127, 128, 0 - 128, 0 - 129, 32767, 0 - 32768, 8388607, 0 - 8388608,
     INT32_MAX, INT32_MIN, 305419896}
SampleBlocks == UNION {[1..n -> Samples] : n \in 0..MaxStore}

\* the calls of store_samples: a block of samples, a qmode, 1 to 4 bytes per sample
StoreCalls ==
    [pc : {"call"}, fn : {"store_samples"}, src : SampleBlocks,
     qmode : [big_endian : BOOLEAN, signed_bytes : BOOLEAN,
              unsigned_words : BOOLEAN, dsd_audio : BOOLEAN],
     bps : 1..4]

\* lines 1256-1268
store_samples_call ==
    /\ UNCHANGED <<stream_vars, fuzz_vars, test, mx, rt, dt, lp>>
    /\ cv.pc = "call"
    /\ cv.fn = "store_samples"
    /\ cv' = [pc |-> "ret", fn |-> cv.fn, src |-> cv.src, qmode |-> cv.qmode,
              bps |-> cv.bps, dst |-> store_samples(cv.src, cv.qmode, cv.bps)]

\* A float sample is num * 2^-FloatShift. floor (*samples * scalar) for a
\* sample strictly between -1.0 and 1.0 and scalar = 2^(bits - 1): the product
\* is a whole number
FloatOne == 2 ^ FloatShift
floor_scaled(num, bits) == num * (2 ^ (bits - 1 - FloatShift))

\* lines 1181-1190 and 1198-1208: isample for bits < 32
quantize(num, bits) ==
    LET imin == 0 - (2 ^ (bits - 1))
        imax == (2 ^ (bits - 1)) - 1
    IN  IF num >= FloatOne THEN imax
        ELSE IF num <= 0 - FloatOne THEN imin
        ELSE floor_scaled(num, bits)

\* lines 1179-1194: the sample becomes isample / scalar; the result kept here
\* is isample
truncate_float_samples(num, bits) == quantize(num, bits)

\* lines 1196-1213: `(uint32_t) isample << ishift`
float_to_integer_samples(num, bits) ==
    LET ishift == (8 - (bits % 8)) % 8
    IN  quantize(num, bits) * (2 ^ ishift)

\* line 1217: `imin = 0x8000000`
imin_32bit == 134217728

\* bits 28 and 30 of a 32-bit int
Bit28 == 2 ^ 28
Bit30 == 2 ^ 30

\* lines 1219-1226: isample of float_to_32bit_integer_samples
quantize_32bit(num) ==
    IF num >= FloatOne THEN INT32_MAX
    ELSE IF num <= 0 - FloatOne THEN imin_32bit
    ELSE floor_scaled(num, 32)

\* lines 1230-1234: the number of trailing zero bits of an even isample that is
\* not zero
RECURSIVE trailing_zeros(_)
trailing_zeros(isample) ==
    IF isample % 2 = 1 THEN 0 ELSE 1 + trailing_zeros(isample \div 2)

\* lines 1215-1243: the trailing zero bits of isample are filled in with bits
\* drawn from frandom. The result is isample's bits above them (top) and the
\* number of drawn bits below (fill): one of the values
\* top * 2^fill .. top * 2^fill + 2^fill - 1
float_to_32bit_integer_samples(num) ==
    LET isample == quantize_32bit(num)
        tzeros == IF isample # 0 /\ isample % 2 = 0 THEN trailing_zeros(isample) ELSE 0
    IN  [top |-> isample \div (2 ^ tzeros), fill |-> tzeros]

\* the calls of the three quantizers, with the bit depths run_test_size_modes
\* hands down (8, 16 and 24 below 32)
QuantCalls ==
    [pc : {"call"},
     fn : {"truncate_float_samples", "float_to_integer_samples"},
     num : (0 - 2 * FloatOne)..(2 * FloatOne), bits : {8, 16, 24}]
    \cup [pc : {"call"}, fn : {"float_to_32bit_integer_samples"},
          num : (0 - 2 * FloatOne)..(2 * FloatOne), bits : {32}]

\* lines 1179-1194
truncate_float_samples_call ==
    /\ UNCHANGED <<stream_vars, fuzz_vars, test, mx, rt, dt, lp>>
    /\ cv.pc = "call"
    /\ cv.fn = "truncate_float_samples"
    /\ cv' = [pc |-> "ret", fn |-> cv.fn, num |-> cv.num, bits |-> cv.bits,
              out |-> [top |-> truncate_float_samples(cv.num, cv.bits), fill |-> 0]]

\* lines 1196-1213
float_to_integer_samples_call ==
    /\ UNCHANGED <<stream_vars, fuzz_vars, test, mx, rt, dt, lp>>
    /\ cv.pc = "call"
    /\ cv.fn = "float_to_integer_samples"
    /\ cv' = [pc |-> "ret", fn |-> cv.fn, num |-> cv.num, bits |-> cv.bits,
              out |-> [top |-> float_to_integer_samples(cv.num, cv.bits), fill |-> 0]]

\* lines 1215-1243
float_to_32bit_integer_samples_call ==
    /\ UNCHANGED <<stream_vars, fuzz_vars, test, mx, rt, dt, lp>>
    /\ cv.pc = "call"
    /\ cv.fn = "float_to_32bit_integer_samples"
    /\ cv' = [pc |-> "ret", fn |-> cv.fn, num |-> cv.num, bits |-> cv.bits,
              out |-> float_to_32bit_integer_samples(cv.num)]

\* ---- the trailing-zero fill of float_to_32bit_integer_samples, step by step

\* isample >> 1 on a 32-bit int: the sign bit is copied in, or, where the
\* build shifts a negative value as an unsigned one, a zero bit
shift_right(isample, arithmetic) ==
    IF arithmetic \/ isample >= 0 THEN isample \div 2
    ELSE ((isample \div 2) + INT32_MAX) + 1

\* the shift of line 1237 left out
shift_left_kept(isample) == isample

\* line 1237: (unsigned int) isample << 1, stored in an int: the top bit is
\* dropped and the next one becomes the sign
shift_left(isample) ==
    IF isample >= Bit30 THEN 2 * (isample - Bit30) + INT32_MIN
    ELSE IF isample < 0 - Bit30 THEN (2 * (isample + Bit30) + INT32_MAX) + 1
    ELSE 2 * isample

\* the values of isample the fill is run on: the four top bits (the sign
\* among them) and the MaxFill + 1 low bits take every value, the bits between
\* are zero
Isamples ==
    {top * Bit28 + low : top \in (0 - 8)..7, low \in 0..(2 ^ (MaxFill + 1) - 1)}

\* a call on one isample; the build's right shift is part of the call
FillCalls ==
    {[pc |-> "call", fn |-> "fill", isample |-> isample, entry |-> isample,
      arithmetic |-> arithmetic, tzeros |-> 0, drawn |-> 0, last |-> 0] :
        isample \in Isamples, arithmetic \in BOOLEAN}

\* line 1230: `if (isample && !(isample & 1))`, and `int tzeros = 1;`
fill_test ==
    /\ UNCHANGED <<stream_vars, fuzz_vars, test, mx, rt, dt, lp>>
    /\ cv.pc = "call"
    /\ cv.fn = "fill"
    /\ cv' = IF cv.isample # 0 /\ cv.isample % 2 = 0
             THEN [cv EXCEPT !.pc = "count", !.tzeros = 1]
             ELSE [cv EXCEPT !.pc = "ret"]

\* lines 1233-1234: `while (!((isample >>= 1) & 1)) tzeros++;`, one test
fill_count ==
    /\ UNCHANGED <<stream_vars, fuzz_vars, test, mx, rt, dt, lp>>
    /\ cv.pc = "count"
    /\ LET shifted == shift_right(cv.isample, cv.arithmetic)
       IN  cv' = IF shifted % 2 = 1
                 THEN [cv EXCEPT !.isample = shifted, !.pc = "fill"]
                 ELSE [cv EXCEPT !.isample = shifted, !.tzeros = @ + 1]

\* lines 1236-1237: `while (tzeros--) isample = ((unsigned int) isample << 1) +
\* ((frandom() > 0.5) ? 1 : 0);`, one test.  The first MaxFill bits drawn are
\* any bits; the bits drawn after them repeat the last of them.
fill_bit ==
    /\ UNCHANGED <<stream_vars, fuzz_vars, test, mx, rt, dt, lp>>
    /\ cv.pc = "fill"
    /\ IF cv.tzeros = 0
       THEN cv' = [cv EXCEPT !.pc = "ret", !.tzeros = @ - 1]
       ELSE \E bit \in {0, 1} :
            /\ cv.drawn >= MaxFill => bit = cv.last
            /\ cv' = [cv EXCEPT !.isample = shift_left(@) + bit,
                                !.tzeros = @ - 1,
                                !.drawn = IF @ < MaxFill THEN @ + 1 ELSE @,
                                !.last = bit]

\* ---- store_samples with dst and src the same buffer (lines 682 and 812)

\* the four bytes of an int32_t in memory, in the byte order of the build
sample_bytes(sample, host_big) ==
    [k \in 1..4 |-> byte(sample, IF host_big THEN 4 - k ELSE k - 1)]

\* a buffer of int32_t samples as the bytes it is made of
sample_buffer(src, host_big) ==
    [i \in 1..(4 * Len(src)) |->
        sample_bytes(src[((i - 1) \div 4) + 1], host_big)[((i - 1) % 4) + 1]]

\* `*src` for src pointing at sample n of the buffer: the int32_t its four
\* bytes make
load_sample(buf, n, host_big) ==
    LET b(k) == buf[4 * (n - 1) + (IF host_big THEN 4 - k ELSE k + 1)]
    IN  b(0) + 256 * b(1) + 65536 * b(2)
          + 16777216 * (IF b(3) >= 128 THEN b(3) - 256 ELSE b(3))

\* `*dptr++ = ...`, bps times, for dptr at byte bps * (n - 1) of the buffer
store_bytes(buf, n, bps, piece) ==
    [i \in 1..Len(buf) |->
        IF i > bps * (n - 1) /\ i <= bps * n THEN piece[i - bps * (n - 1)] ELSE buf[i]]

\* the samples taken from the last to the first
pass_sample_descending(k, count) == count + 1 - k

\* `while (count--)` with `*src++`: pass k of the loop takes sample k
pass_sample(k, count) == k

\* samples whose bytes tell their places apart
InPlaceSamples == {0, 0 - 1, 128, INT32_MIN, 305419896}

\* the calls of store_samples with dst = src
InPlaceCalls ==
    {[pc |-> "call", fn |-> "store_in_place", src |-> src, qmode |-> qmode,
      bps |-> bps, host_big |-> host_big, buf |-> sample_buffer(src, host_big),
      passes |-> 0] :
        src \in UNION {[1..n -> InPlaceSamples] : n \in 0..MaxStore},
        qmode \in [big_endian : BOOLEAN, signed_bytes : BOOLEAN,
                   unsigned_words : BOOLEAN, dsd_audio : BOOLEAN],
        bps \in 1..4, host_big \in BOOLEAN}

\* lines 1256-1268: store_samples picks the function for qmode and bps
store_in_place_call ==
    /\ UNCHANGED <<stream_vars, fuzz_vars, test, mx, rt, dt, lp>>
    /\ cv.pc = "call"
    /\ cv.fn = "store_in_place"
    /\ cv' = [cv EXCEPT !.pc = "pass"]

\* one pass of `while (count--)` in the function picked: the sample is read
\* into temp, then its bps bytes are written
store_in_place_pass ==
    /\ UNCHANGED <<stream_vars, fuzz_vars, test, mx, rt, dt, lp>>
    /\ cv.pc = "pass"
    /\ cv.passes < Len(cv.src)
    /\ LET n == pass_sample(cv.passes + 1, Len(cv.src))
           temp == load_sample(cv.buf, n, cv.host_big)
       IN  cv' = [cv EXCEPT !.passes = @ + 1,
                            !.buf = store_bytes(@, n, cv.bps,
                                                store_samples(<<temp>>, cv.qmode, cv.bps))]

\* the loop is over; dptr is returned
store_in_place_return ==
    /\ UNCHANGED <<stream_vars, fuzz_vars, test, mx, rt, dt, lp>>
    /\ cv.pc = "pass"
    /\ cv.passes = Len(cv.src)
    /\ cv' = [cv EXCEPT !.pc = "ret"]

ConvInit ==
    /\ stream_init({0}, {NULL}, {0})
    /\ random_seed = RandomSeed % SeedMod
    /\ fb = FbIdle
    /\ test = TestIdle
    /\ mx = MxIdle
    /\ rt = RtIdle
    /\ cv \in StoreCalls \cup QuantCalls \cup FillCalls \cup InPlaceCalls
    /\ dt = DtIdle
    /\ lp = LpIdle

ConvNext ==
    \/ store_samples_call
    \/ truncate_float_samples_call
    \/ float_to_integer_samples_call
    \/ float_to_32bit_integer_samples_call
    \/ fill_test
    \/ fill_count
    \/ fill_bit
    \/ store_in_place_call
    \/ store_in_place_pass
    \/ store_in_place_return

ConvSpec == ConvInit /\ [][ConvNext]_vars

\* ------------------------------------------------------------ decode_thread
\* The consumer thread of run_test, statement by statement.  The decoder
\* library is outside it: whether an open succeeds, how many samples an unpack
\* call delivers and what error count the decoder reports are its inputs.  The
\* encoder side is reduced to what the thread can observe of it: blocks still
\* to be written, then done on the main stream, then done on the correction
\* stream (run_test lines 634-732).

\* wd->wv_stream->done || (wd->wvc_stream && wd->wvc_stream->done), lines 790
\* and 815
done_seen(d) == d.wv_done \/ (d.wvc_stream /\ d.wvc_done)

\* the count WavpackStreamGetNumErrors can return for the context that opened
\* (line 823): the context exists only from the successful open on
DecoderErrors == 0..MaxErrors

\* pthread_create with a WavpackDecoder that run_test has just CLEARed
DecodeStart(wvc, blocks) ==
    [pc |-> "open", wpc |-> FALSE, num_errors |-> 0, sample_count |-> 0,
     wvc_stream |-> wvc, wv_done |-> FALSE, wvc_done |-> FALSE,
     blocks |-> blocks, failed_opens |-> 0, exit_done |-> FALSE]

\* lines 782-787: an open attempt that yields a context leaves the loop
decode_open ==
    /\ dt.pc = "open"
    /\ dt' = [dt EXCEPT !.pc = "unpack", !.wpc = TRUE]
    /\ UNCHANGED <<stream_vars, fuzz_vars, test, mx, rt, cv, lp>>

\* lines 782-792: a failed attempt is counted, then done is looked at
decode_open_failed ==
    /\ dt.pc = "open"
    /\ dt.num_errors < MaxErrors
    /\ dt' = [dt EXCEPT !.num_errors = @ + 1,
                        !.failed_opens = @ + 1,
                        !.pc = IF done_seen(dt) THEN "no_decoder" ELSE "open"]
    /\ UNCHANGED <<stream_vars, fuzz_vars, test, mx, rt, cv, lp>>

\* lines 794-795: no context, the thread ends with what it has counted
decode_exit_unopened ==
    /\ dt.pc = "no_decoder"
    /\ dt' = [dt EXCEPT !.pc = "exited", !.exit_done = done_seen(dt)]
    /\ UNCHANGED <<stream_vars, fuzz_vars, test, mx, rt, cv, lp>>

\* lines 808-814: an unpack call that delivers samples
decode_unpack ==
    /\ dt.pc = "unpack"
    /\ dt.sample_count < MaxSamples
    /\ dt' = [dt EXCEPT !.sample_count = @ + 1]
    /\ UNCHANGED <<stream_vars, fuzz_vars, test, mx, rt, cv, lp>>

\* lines 815-818: an unpack call that delivers nothing ends the loop once
\* done is set and is counted as an error before that
decode_unpack_empty ==
    /\ dt.pc = "unpack"
    /\ \/ /\ done_seen(dt)
          /\ dt' = [dt EXCEPT !.pc = "final"]
       \/ /\ ~done_seen(dt)
          /\ dt.num_errors < MaxErrors
          /\ dt' = [dt EXCEPT !.num_errors = @ + 1]
    /\ UNCHANGED <<stream_vars, fuzz_vars, test, mx, rt, cv, lp>>

\* lines 822-826: the decoder's own count replaces the thread's
decode_final ==
    /\ dt.pc = "final"
    /\ \E errors \in DecoderErrors :
           dt' = [dt EXCEPT !.num_errors = errors, !.pc = "exited",
                            !.wpc = FALSE, !.exit_done = done_seen(dt)]
    /\ UNCHANGED <<stream_vars, fuzz_vars, test, mx, rt, cv, lp>>

\* lines 634-706: the encoder writes one more block
encoder_writes ==
    /\ dt.pc # "idle"
    /\ dt.blocks > 0
    /\ dt' = [dt EXCEPT !.blocks = @ - 1]
    /\ UNCHANGED <<stream_vars, fuzz_vars, test, mx, rt, cv, lp>>

\* line 731: flush_stream (&wv_stream), after the last block
encoder_flush_wv ==
    /\ dt.pc # "idle"
    /\ dt.blocks = 0
    /\ ~dt.wv_done
    /\ dt' = [dt EXCEPT !.wv_done = TRUE]
    /\ UNCHANGED <<stream_vars, fuzz_vars, test, mx, rt, cv, lp>>

\* line 732: flush_stream (&wvc_stream), after the main stream's
encoder_flush_wvc ==
    /\ dt.pc # "idle"
    /\ dt.wv_done
    /\ ~dt.wvc_done
    /\ dt' = [dt EXCEPT !.wvc_done = TRUE]
    /\ UNCHANGED <<stream_vars, fuzz_vars, test, mx, rt, cv, lp>>

DecodeInit ==
    /\ stream_init({0}, {NULL}, {0})
    /\ random_seed = RandomSeed % SeedMod
    /\ fb = FbIdle
    /\ test = TestIdle
    /\ mx = MxIdle
    /\ rt = RtIdle
    /\ cv = CvIdle
    /\ lp = LpIdle
    /\ dt \in {DecodeStart(wvc, MaxTotal) : wvc \in BOOLEAN}

DecodeNext ==
    \/ decode_open
    \/ decode_open_failed
    \/ decode_exit_unopened
    \/ decode_unpack
    \/ decode_unpack_empty
    \/ decode_final
    \/ encoder_writes
    \/ encoder_flush_wv
    \/ encoder_flush_wvc

DecodeSpec == DecodeInit /\ [][DecodeNext]_vars

\* --------------------------------------------------- run_test's streaming loop
\* The counters of the loop at lines 633-706: seconds and samples, and in the
\* history the number of frames of ENCODE_SAMPLES samples handed to
\* WavpackStreamPackSamples.

\* samples set back to zero at each full second
samples_restarted(samples) ==
    IF samples + ENCODE_SAMPLES >= SAMPLE_RATE THEN 0 ELSE samples + ENCODE_SAMPLES

\* lines 688-689: `if ((samples += ENCODE_SAMPLES) >= SAMPLE_RATE) samples -=
\* SAMPLE_RATE;`
samples_counted(samples) ==
    IF samples + ENCODE_SAMPLES >= SAMPLE_RATE
    THEN samples + ENCODE_SAMPLES - SAMPLE_RATE
    ELSE samples + ENCODE_SAMPLES

\* line 451: `int seconds = 0, samples = 0`; num_seconds is run_test's argument
LoopStart ==
    [pc : {"loop"}, num_seconds : 1..MaxSeconds, seconds : {0}, samples : {0},
     frames : {0}, total_encoded_samples : {0}]

\* lines 633-706: one pass of the loop feeds one frame to the encoder
loop_frame ==
    /\ UNCHANGED <<stream_vars, fuzz_vars, test, mx, rt, cv, dt>>
    /\ lp.pc = "loop"
    /\ lp.seconds < lp.num_seconds
    /\ lp' = [lp EXCEPT !.frames = @ + 1,
                        !.samples = samples_counted(@),
                        !.seconds = IF lp.samples + ENCODE_SAMPLES >= SAMPLE_RATE
                                    THEN @ + 1 ELSE @]

\* lines 633 and 708-727: the loop is left and the samples are added up
loop_exit ==
    /\ UNCHANGED <<stream_vars, fuzz_vars, test, mx, rt, cv, dt>>
    /\ lp.pc = "loop"
    /\ ~(lp.seconds < lp.num_seconds)
    /\ lp' = [lp EXCEPT !.pc = "done",
                        !.total_encoded_samples = lp.seconds * SAMPLE_RATE + lp.samples]

LoopInit ==
    /\ stream_init({0}, {NULL}, {0})
    /\ random_seed = RandomSeed % SeedMod
    /\ fb = FbIdle
    /\ test = TestIdle
    /\ mx = MxIdle
    /\ rt = RtIdle
    /\ cv = CvIdle
    /\ dt = DtIdle
    /\ lp \in LoopStart

LoopNext ==
    \/ loop_frame
    \/ loop_exit

LoopSpec == LoopInit /\ [][LoopNext]_vars

\* ------------------------------------------------------------ properties

IsPrefix(a, b) == Len(a) <= Len(b) /\ SubSeq(b, 1, Len(a)) = a

\* the bytes the consumer has: those of the reads that returned, then those
\* the read in progress has copied into the caller's buffer
delivered == hist.consumed \o rd.data

\* the ring buffer's unread bytes, the oldest first
unread_count == (ws.buffer_head - ws.buffer_tail) % ws.buffer_size
unread_bytes ==
    [k \in 1..unread_count |->
        mem[((ws.buffer_tail - ws.buffer_base + k - 1) % ws.buffer_size) + 1]]

\* the bytes write_block has copied into the ring so far
copied_in == ws.bytes_written - wr.length

\* C1: on a channel with a ring buffer, no fuzzing and no pushback, the bytes
\* read_bytes has returned so far (and those the read in progress has copied)
\* are always a prefix of the bytes handed to write_block so far: in the order
\* written, none lost, none twice.
C1_FifoPrefix ==
    (ws.buffer_size # 0 /\ ws.fuzz_period = 0 /\ hist.pushback = "never")
        => IsPrefix(delivered, hist.written)

\* C1 witness: with no pushback, the whole stream has gone through a ring
\* smaller than it, in several reads
C1_Witness ==
    /\ ws.buffer_size # 0
    /\ hist.pushback = "never"
    /\ Len(hist.written) = MaxTotal
    /\ hist.consumed = hist.written
    /\ rd.pc = "idle"

\* C5: a read_bytes call that returns fewer bytes than asked for returns when
\* end-of-input is signaled, nothing is pushed back and the ring is empty, every
\* byte written having been taken from the ring; a call never returns more than
\* asked for, and returns what it copied.
C5_ShortReadOnlyAtEnd ==
    rd.pc = "ret" =>
        /\ rd.ret = Len(rd.data)
        /\ rd.ret <= rd.req
        /\ rd.ret < rd.req =>
            /\ ws.done = 1
            /\ ws.push_back = 0
            /\ ws.buffer_head = ws.buffer_tail
            /\ ws.bytes_read = ws.bytes_written
            /\ ws.bytes_written = Len(hist.written)

\* C5 witness: a read that had copied some bytes, and returns short of its count
C5_Witness ==
    /\ rd.pc = "ret"
    /\ rd.ret > 0
    /\ rd.ret < rd.req
    /\ ws.bytes_read = MaxTotal

\* C6: on a channel with a ring buffer both cursors lie inside the buffer, the
\* ring holds exactly the bytes copied in and not yet read, at most
\* buffer_size - 1 of them, and they are the written bytes not yet read:
\* write_block has overwritten none of them.
C6_RingInvariant ==
    ws.buffer_base # NULL =>
        /\ ws.buffer_head >= ws.buffer_base
        /\ ws.buffer_head < ws.buffer_base + ws.buffer_size
        /\ ws.buffer_tail >= ws.buffer_base
        /\ ws.buffer_tail < ws.buffer_base + ws.buffer_size
        /\ copied_in - ws.bytes_read = unread_count
        /\ copied_in - ws.bytes_read <= ws.buffer_size - 1
        /\ unread_bytes = SubSeq(hist.written, ws.bytes_read + 1, copied_in)

\* C6 witness: the ring is full, the producer is waiting for room, and the
\* unread bytes run across the end of the buffer
C6_Witness ==
    /\ ws.buffer_size = MaxSize
    /\ wr.pc = "wait"
    /\ unread_count = ws.buffer_size - 1
    /\ ws.buffer_head < ws.buffer_tail
    /\ ws.bytes_read > 0

\* the consumer is inside read_bytes, the producer inside write_block's locked part
reading == rd.pc \in {"lock", "loop", "wait", "woken"}
writing == wr.pc \in {"lock", "loop", "wait", "woken"}

\* a read_bytes call has returned short of its count
short_read == rd.pc = "ret" /\ rd.ret < rd.req

\* C2: on a channel with a ring buffer and no fuzzing, when every
\* push_back_byte call un-reads the byte the consumer has just read, what the
\* consumer has consumed is always a prefix of what was written, and is all of
\* it when a read comes back short.
C2_UnreadRoundTrip ==
    (ws.buffer_size # 0 /\ ws.fuzz_period = 0 /\ hist.pushback # "any")
        => /\ IsPrefix(delivered, hist.written)
           /\ short_read => delivered = hist.written

\* C3: when push_back_byte (c) was called with no pushback pending, the loop
\* pass of the next read_bytes of size 1 puts c, and nothing else, into the
\* caller's buffer, without waiting and without moving the ring's read cursor.
C3_PushbackThenRead ==
    [][(rd.pc = "loop" /\ rd.req = 1 /\ rd.bcount = 1 /\ hist.pushed # None /\ rd' # rd)
        => /\ rd'.pc = "loop"
           /\ rd'.data = <<hist.pushed>>
           /\ ws'.buffer_tail = ws.buffer_tail
           /\ ws'.bytes_read = ws.bytes_read]_vars

\* C4: a push_back_byte call made while a byte that push_back_byte accepted is
\* still to be read returns EOF and changes nothing of the channel, and that
\* byte stays in the pushback cell until a read takes it.
C4_PushbackRefused ==
    [][/\ (rd.pc = "idle" /\ rd'.pc = "pb_ret" /\ hist.pushed # None)
            => (rd'.ret = EOF /\ ws' = ws /\ mem' = mem /\ mutex' = mutex /\ wr' = wr)
       /\ (hist.pushed # None /\ rd.pc = "idle") => ws'.push_back = hist.pushed]_vars

\* C7: under fair scheduling, on every channel with a ring buffer, every
\* write_block call returns and every byte written is taken from the ring by a
\* read that returns.
C7_EveryWriteReturns ==
    /\ (ws.buffer_size # 0 /\ writing) ~> (wr.pc = "ret")
    /\ \A n \in 1..MaxTotal :
        (ws.buffer_size # 0 /\ Len(hist.written) >= n) ~> (ws.bytes_read >= n /\ ~reading)

\* C8: once end-of-input is signaled no reader is left waiting; from then on a
\* read that finds the ring empty and nothing pushed back adds nothing to what it
\* has collected and does not wait (a call issued then returns 0); and under
\* fair scheduling a read in progress when end-of-input is signaled returns.
C8_FlushWakesReader ==
    /\ [](ws.done = 1 => rd.pc # "wait")
    /\ [][(/\ ws.done = 1
           /\ ws.buffer_head = ws.buffer_tail
           /\ ws.push_back = 0
           /\ reading)
            => (rd'.data = rd.data /\ rd'.pc \in {rd.pc, "loop", "ret"}
                /\ (rd'.pc = "ret" => rd'.ret = Len(rd.data)))]_vars
    /\ (ws.done = 1 /\ reading) ~> (rd.pc = "ret")

\* C8 witness: end-of-input is signaled while the reader, some bytes collected,
\* was waiting on the empty ring; the reader is woken
C8_Witness ==
    /\ ws.done = 1
    /\ rd.pc = "woken"
    /\ rd.data # <<>>
    /\ ws.buffer_head = ws.buffer_tail

\* a step of flush_stream
flush_step ==
    wr' # wr /\ (hist'.flushes # hist.flushes \/ wr.pc \in {"flush_lock", "flush"})

\* C9: flush_stream changes nothing on a channel with no ring buffer; on a
\* channel with one it sets done to 1 and leaves every other field, the buffer
\* and the cursors as they are, so a second call changes nothing; and it
\* changes the reader only by waking it when it waits.
C9_FlushIdempotent ==
    [][flush_step =>
        /\ mem' = mem
        /\ ws.buffer_base = NULL => (ws' = ws /\ wr'.pc = "idle" /\ mutex' = mutex /\ rd' = rd)
        /\ ws' \in {ws, [ws EXCEPT !.done = 1]}
        /\ wr.pc = "flush" => ws'.done = 1
        /\ ws.done = 1 => ws' = ws
        /\ rd.pc # "wait" => rd' = rd]_vars

\* C9 witness: a second flush_stream call has returned on a channel with a ring
C9_Witness ==
    /\ hist.flushes = 2
    /\ wr.pc = "idle"
    /\ ws.done = 1
    /\ ws.buffer_head # ws.buffer_tail

\* C10: on a channel with no ring buffer write_block never gets to the mutex
\* or to a wait, nothing is stored, bytes_written is the number of bytes handed
\* to write_block, and a call with a channel, a block and a length returns 1.
C10_ZeroCapacityWrite ==
    /\ [](ws.buffer_size = 0 =>
            /\ wr.pc \in {"idle", "ret"}
            /\ mutex # "wr"
            /\ mem = <<>>
            /\ ws.buffer_head = NULL
            /\ ws.bytes_written = Len(hist.written))
    /\ [][(ws.buffer_size = 0 /\ hist'.written # hist.written)
            => /\ wr'.pc = "ret"
               /\ wr'.ret = 1
               /\ ws'.bytes_written
                    = ws.bytes_written + Len(hist'.written) - Len(hist.written)]_vars

\* C10 witness: writes of MaxTotal bytes in all have been swallowed
C10_Witness ==
    /\ ws.buffer_size = 0
    /\ wr.pc = "ret"
    /\ wr.ret = 1
    /\ ws.bytes_written = MaxTotal

\* C11: on a channel with no ring buffer, once flush_stream has been called, a
\* read_bytes call that has the mutex returns at once, with 0 bytes, whatever
\* count it was called with.
C11_ZeroCapacityRead ==
    [][(ws.buffer_size = 0 /\ hist.flushes > 0 /\ rd.pc = "loop" /\ rd' # rd)
        => (rd'.pc = "ret" /\ rd'.ret = 0)]_vars

\* C12: whatever the channel (never initialized, with no ring buffer, with one,
\* with a backing file or none, its file closed by a write error or not) and
\* however often free_stream is called, the backing file is closed at most
\* once and the ring buffer freed at most once, and after free_stream file and
\* buffer_base are both null.
C12_FreeStreamSafe ==
    /\ hist.fcloses <= 1
    /\ hist.frees <= 1
    /\ hist.released > 0 => (ws.file = NULL /\ ws.buffer_base = NULL /\ mem = <<>>)

\* C12 witness: free_stream was called twice on a channel that had a ring
\* buffer and a backing file
C12_Witness ==
    /\ hist.released = 2
    /\ hist.fcloses = 1
    /\ hist.frees = 1
    /\ ws.error = 0

\* a seek result that reports failure, as fseek reports it and as the -1 of
\* set_pos_rel does: not zero
seek_failed(ret) == ret # 0

\* C13: in every channel state get_pos returns -1 (position unknown),
\* get_length returns 0 (length unknown), can_seek returns 0 (false), and
\* set_pos_abs and set_pos_rel both return a result that reports failure.
C13_ForwardOnly ==
    /\ rd.pc = "get_pos" => rd.ret = -1
    /\ rd.pc = "get_length" => rd.ret = 0
    /\ rd.pc = "can_seek" => rd.ret = 0
    /\ rd.pc \in {"set_pos_abs", "set_pos_rel"} => seek_failed(rd.ret)

\* C14: a call of get_pos, set_pos_abs, set_pos_rel, get_length or can_seek,
\* and its return, change nothing of the channel, of its buffer, of its file,
\* of the mutex, of the other thread or of what was written and consumed, and
\* leave the reader as it was before the call.
C14_StubsChangeNothing ==
    [][(rd' # rd /\ (rd'.pc \in freader_stubs \/ rd.pc \in freader_stubs))
        => /\ ws' = ws /\ mem' = mem /\ disk' = disk /\ mutex' = mutex
           /\ wr' = wr /\ hist' = hist
           /\ rd.pc \in freader_stubs => rd' = RdIdle]_vars

\* C14 witness: set_pos_abs has been called between two reads, with bytes
\* consumed, a byte pushed back and bytes in the ring
C14_Witness ==
    /\ rd.pc = "set_pos_abs"
    /\ ws.bytes_read > 0
    /\ ws.push_back # 0
    /\ ws.buffer_head # ws.buffer_tail
    /\ wr.pc = "wait"

\* what a write_block call may change, the writer's place apart
write_block_footprint == <<ws, mem, disk, mutex, rd, hist.written, hist.fcloses>>

\* C15: a write_block call returns 0 when its channel or its block is null or
\* its length is 0, and 1 otherwise; a call that returns 0 has changed no
\* counter, no file and no buffer.
C15_WriteBlockResult ==
    /\ [](wr.pc = "ret" => /\ hist.call \in {"valid", "invalid"}
                           /\ wr.ret = (IF hist.call = "valid" THEN 1 ELSE 0))
    /\ [][(wr.pc = "idle" /\ hist'.call = "invalid")
            => (wr'.pc = "ret" /\ write_block_footprint' = write_block_footprint)]_vars

\* C15 witness: a valid call returns 1 on a channel whose backing file has
\* failed, after going through the ring buffer
C15_Witness ==
    /\ wr.pc = "ret"
    /\ wr.ret = 1
    /\ ws.error = 1
    /\ ws.buffer_size # 0
    /\ ws.first_block_size # ws.bytes_written

\* C16: once an fwrite call has written less than the block, error is 1 and
\* the file is closed and null; with error set nothing more goes to the file
\* and it is not closed again; and
\* whatever the file does the ring holds the written bytes not yet read, the
\* reader gets them in order and a valid call returns 1.
C16_FileErrorRecorded ==
    /\ [](hist.failed => (ws.error = 1 /\ ws.file = NULL /\ hist.fcloses >= 1))
    /\ [][ws.error = 1 => (disk' = disk /\ hist'.fcloses = hist.fcloses)]_vars
    /\ []((ws.buffer_base # NULL /\ hist.pushback = "never")
            => /\ IsPrefix(delivered, hist.written)
               /\ unread_bytes = SubSeq(hist.written, ws.bytes_read + 1, copied_in))
    /\ []((wr.pc = "ret" /\ hist.call = "valid") => wr.ret = 1)

\* C17: when fuzz_buffer returns, every byte of the block that at least one
\* hit selected has a value different from the one it had on entry.
C17_HitBytesDiffer ==
    fb.pc = "ret" =>
        \A i \in 1..fb.length : fb.hits[i] >= 1 => fb.data[i] # fb.entry[i]

\* C17 as amended: every hit leaves the byte it selected with a value
\* different from the one the byte had before that hit, and leaves the other
\* bytes alone; when fuzz_buffer returns, every byte selected by exactly one
\* hit differs from its value on entry and every byte no hit selected is as
\* it was on entry.
C17_EachHitChangesByte ==
    /\ [][(fb.pc = "toggle" /\ fb'.pc = "hits")
            => /\ fb'.data[fb.index + 1] # fb.initial_value
               /\ fb'.data = fb.data]_vars
    /\ [][(fb.pc = "toggle" /\ fb'.pc = "toggle")
            => \A i \in 1..fb.length : i # fb.index + 1 => fb'.data[i] = fb.data[i]]_vars
    /\ [](fb.pc = "ret" =>
            \A i \in 1..fb.length :
                /\ fb.hits[i] = 1 => fb.data[i] # fb.entry[i]
                /\ fb.hits[i] = 0 => fb.data[i] = fb.entry[i])

\* C17 witness: fuzz_buffer returns after two hits on two bytes, one byte
\* untouched
C17_Witness ==
    /\ fb.pc = "ret"
    /\ \E i, j, k \in 1..fb.length :
        /\ i # j
        /\ fb.hits[i] = 1 /\ fb.hits[j] = 1 /\ fb.hits[k] = 0
        /\ fb.data[i] # fb.entry[i] /\ fb.data[j] # fb.entry[j]

\* C18: when fuzz_buffer returns the seed is the one it found on entry; and
\* outside fuzz_buffer the seed is the one that the draws of signal synthesis
\* made so far give from the first seed with no fuzz_buffer call at all.
C18_SeedRestored ==
    /\ fb.pc = "ret" => random_seed = fb.saved_seed
    /\ fb.pc \in {"idle", "ret"}
        => random_seed = frandom_seeds(RandomSeed % SeedMod, fb.drawn)

\* C18 witness: fuzz_buffer returns after a hit, draws of signal synthesis
\* made before the call
C18_Witness ==
    /\ fb.pc = "ret"
    /\ fb.drawn = MaxDraws
    /\ fb.data # fb.entry

\* the configuration is lossless: not hybrid, or hybrid with a correction
\* stream that is created and decoded
lossless_configuration == ~test.hybrid \/ (test.create_wvc /\ ~test.ignore_wvc)

\* C19: with fuzz_period 0 and decoding enabled run_test returns 0 exactly
\* when the decoder reports no error, the decoded sample count is the encoded
\* one and, for a lossless configuration, the two hashes are equal.
C19_VerdictWithoutFuzz ==
    (test.pc = "ret" /\ test.fuzz_period = 0 /\ ~test.no_decode) =>
        (test.ret = 0 <=>
            /\ test.num_errors = 0
            /\ test.sample_count = test.total_encoded_samples
            /\ lossless_configuration => test.md5_decoded = test.md5_encoded)

\* C19 witness: a hybrid run with a correction stream that the decoder is not
\* given passes with hashes that differ
C19_Witness ==
    /\ test.pc = "ret"
    /\ test.fuzz_period = 0
    /\ ~test.no_decode
    /\ test.hybrid /\ test.create_wvc /\ test.ignore_wvc
    /\ test.md5_decoded # test.md5_encoded
    /\ test.total_encoded_samples > 0
    /\ test.ret = 0

\* C20: with a fuzz period, a run whose decoder reports errors and the right
\* sample count returns 0.
C20_DetectedCorruptionPasses ==
    (/\ test.pc = "ret"
     /\ test.fuzz_period # 0
     /\ ~test.no_decode
     /\ test.num_errors # 0
     /\ test.sample_count = test.total_encoded_samples) => test.ret = 0

\* C20 witness: such a run, lossless and with hashes that differ, has returned 0
C20_Witness ==
    /\ test.pc = "ret"
    /\ test.fuzz_period # 0
    /\ ~test.no_decode
    /\ test.num_errors = MaxErrors
    /\ test.sample_count = test.total_encoded_samples
    /\ ~test.hybrid
    /\ test.md5_decoded # test.md5_encoded
    /\ test.ret = 0

\* C21: with a fuzz period and decoding enabled, a run whose decoder reports
\* no error but counts other samples than were encoded, or, in a lossless
\* configuration, hashes to another value than the encoder, returns nonzero.
C21_UndetectedCorruptionFails ==
    (/\ test.pc = "ret"
     /\ test.fuzz_period # 0
     /\ ~test.no_decode
     /\ test.num_errors = 0
     /\ \/ test.sample_count # test.total_encoded_samples
        \/ (lossless_configuration /\ test.md5_decoded # test.md5_encoded))
        => test.ret # 0

block_written == hist.written # <<>> \/ hist.call # "none" \/ rt.wvc.written

\* C23: with decoding enabled, in every state where a frame was fed to the
\* encoder or a block written to a channel the consumer thread has been
\* created; with decoding disabled no consumer thread is ever created and
\* both channels have no ring buffer.
C23_ThreadBeforeSamples ==
    /\ (~rt.no_decode /\ (rt.fed \/ block_written)) => rt.thread # "none"
    /\ rt.no_decode =>
        /\ rt.thread = "none"
        /\ ws.buffer_size = 0
        /\ rt.wvc.buffer_size = 0

\* C23 witness: decoding enabled, the thread runs, a frame was fed and blocks
\* were handed to write_block for both channels
C23_Witness ==
    /\ ~rt.no_decode
    /\ rt.thread = "running"
    /\ rt.fed
    /\ hist.written # <<>>
    /\ rt.wvc.written
    /\ ws.buffer_size = BUFFER_SIZE /\ rt.wvc.buffer_size = BUFFER_SIZE

\* the run has come to the end of run_test by way of the verdict
run_completed == rt.pc \in {"verdict", "ret"} /\ ~rt.failed

\* what C24 says of the flush_stream calls that are made: each follows
\* WavpackStreamCloseFile, neither channel is flushed twice, and no block is
\* handed to write_block for a channel after its flush_stream call
flush_after_close ==
    /\ (hist.flushes # 0 \/ rt.wvc.flushes # 0) => rt.closed
    /\ hist.flushes <= 1 /\ rt.wvc.flushes <= 1
    /\ hist.flushes # 0 => (hist.call = "none" /\ wr.pc \in {"idle", "flush_lock", "flush"})
    /\ ~rt.wvc.late

\* C24 as stated: every run_test call that returns has called flush_stream
\* once for each channel, after WavpackStreamCloseFile, and has handed no block
\* to write_block for a channel after that channel's flush_stream call.
C24_FlushOnceEach ==
    /\ rt.pc = "ret" => (hist.flushes = 1 /\ rt.wvc.flushes = 1)
    /\ flush_after_close

\* C24 amended: the same of every run_test call that has created its capture
\* files, or has none to create.
C24_FlushOnceUnlessSetupFailed ==
    /\ run_completed => (hist.flushes = 1 /\ rt.wvc.flushes = 1)
    /\ rt.failed => (hist.flushes = 0 /\ rt.wvc.flushes = 0)
    /\ flush_after_close

\* C24 witness: a run with decoding and a decoded correction stream has
\* returned, blocks written to both channels and both channels ended
C24_Witness ==
    /\ rt.pc = "ret" /\ ~rt.failed
    /\ wvc_decoded(rt)
    /\ Len(hist.written) = MaxTotal /\ rt.wvc.written
    /\ ws.done = 1 /\ rt.wvc.done = 1
    /\ hist.flushes = 1 /\ rt.wvc.flushes = 1

\* a channel has been handed to free_stream
torn_down == hist.released # 0 \/ rt.wvc.frees # 0

\* the producer has written its last block and called flush_stream for both
\* channels, and the consumer thread, if there is one, is joined
run_drained ==
    /\ rt.closed
    /\ wr.pc = "idle"
    /\ hist.flushes = 1 /\ rt.wvc.flushes = 1
    /\ ~rt.no_decode => rt.thread = "joined"

\* the consumer thread is not in a channel that is freed or whose run_test
\* has returned: it has ended, or was never created
consumer_gone == (torn_down \/ rt.pc = "ret") => (rt.thread # "running" /\ rd.pc = "idle")

\* C25 as stated: a channel is handed to free_stream only after the last
\* write, the flush_stream calls and, with decoding enabled, pthread_join; and
\* the consumer thread never runs while a channel is freed or after run_test
\* has returned.
C25_FreeAfterJoin ==
    /\ torn_down => run_drained
    /\ consumer_gone

\* C25 amended: the same, but for a run_test call that cannot create a capture
\* file, which frees its channels before the encoder is opened and the
\* consumer thread created.
C25_FreeAfterJoinUnlessSetupFailed ==
    /\ torn_down => (run_drained \/ (rt.failed /\ rt.thread = "none" /\ ~rt.fed /\ ~block_written))
    /\ consumer_gone

\* C25 witness: both channels are freed after a run in which the consumer
\* thread has read all that was written
C25_Witness ==
    /\ hist.released = 1 /\ rt.wvc.frees = 1
    /\ ~rt.failed
    /\ rt.thread = "joined"
    /\ Len(hist.written) = MaxTotal
    /\ hist.consumed = hist.written

stored_as(dst, src, bps, unsigned, big) ==
    /\ Len(dst) = bps * Len(src)
    /\ \A n \in 1..Len(src), k \in 0..(bps - 1) :
        dst[(n - 1) * bps + 1 + (IF big THEN bps - 1 - k ELSE k)]
            = IF unsigned /\ k = bps - 1
              THEN (byte(src[n], k) + 128) % 256
              ELSE byte(src[n], k)

\* C27 as stated: store_samples stores bps bytes for each sample, the low
\* bytes of the sample, biased when unsigned, little-endian unless
\* QMODE_BIG_ENDIAN is set; unsigned for bps = 1 unless QMODE_SIGNED_BYTES is
\* set, signed for bps > 1, and unsigned with QMODE_UNSIGNED_WORDS.
C27_StoreSamples ==
    (cv.pc = "ret" /\ cv.fn = "store_samples") =>
        stored_as(cv.dst, cv.src, cv.bps,
                  cv.qmode.unsigned_words \/ (cv.bps = 1 /\ ~cv.qmode.signed_bytes),
                  cv.qmode.big_endian)

\* C27 amended: the same, but that in little-endian order a bit of
\* QMODE_DSD_AUDIO makes bps = 1 signed as QMODE_SIGNED_BYTES does.
C27_StoreSamplesUnlessDsd ==
    (cv.pc = "ret" /\ cv.fn = "store_samples") =>
        stored_as(cv.dst, cv.src, cv.bps,
                  \/ cv.qmode.unsigned_words
                  \/ /\ cv.bps = 1
                     /\ ~cv.qmode.signed_bytes
                     /\ ~(cv.qmode.dsd_audio /\ ~cv.qmode.big_endian),
                  cv.qmode.big_endian)

\* C27 witness: two samples stored as three unsigned bytes each, the highest
\* first; the first sample is the largest of 24 bits, stored as ff ff ff
C27_Witness ==
    /\ cv.pc = "ret" /\ cv.fn = "store_samples"
    /\ cv.bps = 3
    /\ cv.qmode.big_endian /\ cv.qmode.unsigned_words
    /\ Len(cv.src) = MaxStore
    /\ cv.src[1] = 8388607
    /\ cv.src[2] = INT32_MIN
    /\ SubSeq(cv.dst, 1, 4) = <<255, 255, 255, 128>>

\* C28: a sample >= 1.0 is quantized to the largest value of the bit depth
\* and a sample <= -1.0 to the smallest; float_to_32bit_integer_samples gives
\* 0x7fffffff for a sample >= 1.0 and a negative value for a sample <= -1.0.
C28_QuantizersSaturate ==
    (cv.pc = "ret" /\ cv.fn \in {"truncate_float_samples", "float_to_integer_samples",
                                  "float_to_32bit_integer_samples"}) =>
        IF cv.fn = "float_to_32bit_integer_samples"
        THEN /\ cv.num >= FloatOne => cv.out = [top |-> INT32_MAX, fill |-> 0]
             /\ cv.num <= 0 - FloatOne => cv.out.top < 0
        ELSE /\ cv.num >= FloatOne => cv.out = [top |-> (2 ^ (cv.bits - 1)) - 1, fill |-> 0]
             /\ cv.num <= 0 - FloatOne => cv.out = [top |-> 0 - (2 ^ (cv.bits - 1)), fill |-> 0]

\* C29: write_block signals cond_write after each chunk it copies, before it
\* waits for space: when write_block starts to wait with bytes of its block
\* copied into the ring, no consumer is left waiting for data.
C29_SignalBeforeWait ==
    [][(wr.pc = "loop" /\ wr'.pc = "wait" /\ wr.data_ptr > 1) => rd.pc # "wait"]_vars

\* C30: on a channel with a ring buffer, the producer stores to the ring,
\* moves buffer_head and sets done only while it holds the mutex, and the
\* consumer moves buffer_tail and changes the push_back cell only while it
\* holds the mutex.
C30_SharedStateUnderMutex ==
    [][(ws.buffer_size # 0 /\ hist'.released = hist.released) =>
        /\ (mem' # mem \/ ws'.buffer_head # ws.buffer_head \/ ws'.done # ws.done)
               => mutex = "wr"
        /\ (ws'.buffer_tail # ws.buffer_tail \/ ws'.push_back # ws.push_back)
               => mutex = "rd"]_vars

\* C31: when decode_thread has ended, the error count it leaves for the
\* verifier is at least the number of open attempts that failed, whether or
\* not a later attempt succeeded.
C31_FailedOpensReported ==
    dt.pc = "exited" => dt.num_errors >= dt.failed_opens

RECURSIVE accumulated(_, _, _)
\* the sum of hit_probability over 0..k hits (times period^length)
accumulated(period, length, k) ==
    hit_probability(period, length, k)
        + (IF k = 0 THEN 0 ELSE accumulated(period, length, k - 1))

\* the hit counts at which the accumulated probability has reached the
\* factor drawn
factor_met(f) ==
    {k \in 0..f.length :
        accumulated(f.fuzz_period, f.length, k) * RandomSteps
            >= f.fuzz_factor * pow(f.fuzz_period, f.length)}

\* C32: in a call of fuzz_buffer on a block of length L >= 1, the number of
\* hits is at most ceil(L/2); it is the first k at which the accumulated hit
\* probability meets or exceeds the factor drawn, or ceil(L/2) if that comes
\* first; every hit's index lies in 0..L-1; and a byte that no hit has
\* selected has the value it had on entry.
C32_HitsBounded ==
    (fb.pc # "idle" /\ fb.length >= 1) =>
        /\ 2 * fb.count <= fb.length + 1
        /\ \A k \in 0..fb.length :
               (/\ fb.fuzz_period # 0
                /\ k \in factor_met(fb)
                /\ \A j \in 0..(k - 1) : j \notin factor_met(fb))
                   => fb.count = IF 2 * k <= fb.length + 1 THEN k
                                 ELSE (fb.length + 1) \div 2
        /\ fb.pc = "toggle" => fb.index \in 0..(fb.length - 1)
        /\ \A i \in 1..fb.length : fb.hits[i] = 0 => fb.data[i] = fb.entry[i]

\* a block of three bytes that has had one hit, fewer than the limit of two,
\* so the number the factor drawn asks for: the byte hit has changed, the two
\* others not
C32_Witness ==
    /\ fb.pc = "ret"
    /\ fb.length = 3
    /\ fb.count = 1
    /\ \E i \in 1..3 :
        /\ fb.hits[i] = 1 /\ fb.data[i] # fb.entry[i]
        /\ \A j \in (1..3) \ {i} : fb.hits[j] = 0 /\ fb.data[j] = fb.entry[j]

RECURSIVE bits_from(_, _)
\* the bits of a 32-bit value at position t and above, the sign among them
bits_from(isample, t) ==
    IF t = 0 THEN isample ELSE bits_from(isample \div 2, t - 1)

\* the fill of float_to_32bit_integer_samples has run on cv.entry
filled == cv.pc = "ret" /\ cv.fn = "fill"

\* C33: the trailing-zero fill of float_to_32bit_integer_samples leaves zero
\* and odd values as they are; for an even value that is not zero, with t
\* trailing zero bits, the result has the value's bits at position t and above
\* (the lowest set bit and the sign among them) and differs only in bits
\* 0..t-1; and both loops end: the first counts up to at most 31 over a value
\* that is never zero, the second counts down to zero.
C33_FillKeepsHighBits ==
    /\ [](filled =>
            IF cv.entry = 0 \/ cv.entry % 2 = 1 THEN cv.isample = cv.entry
            ELSE LET t == trailing_zeros(cv.entry)
                 IN  /\ bits_from(cv.isample, t) = bits_from(cv.entry, t)
                     /\ bits_from(cv.entry, t) % 2 = 1
                     /\ (cv.isample < 0) = (cv.entry < 0))
    /\ []((cv.pc = "count" /\ cv.fn = "fill")
            => cv.isample # 0 /\ cv.tzeros \in 1..31)
    /\ [][(cv.pc = "count" /\ cv'.pc = "count") => cv'.tzeros = cv.tzeros + 1]_vars
    /\ [][(cv.pc = "count" /\ cv'.pc = "fill")
            => cv.tzeros = trailing_zeros(cv.entry)]_vars
    /\ [][(cv.pc = "fill" /\ cv'.pc = "fill")
            => cv.tzeros >= 1 /\ cv'.tzeros = cv.tzeros - 1]_vars

\* a negative value with three trailing zero bits, all three of them filled
\* with ones, on a build whose right shift copies the sign
C33_Witness ==
    /\ filled
    /\ cv.arithmetic
    /\ cv.entry = (0 - 8) * Bit28 + 8
    /\ cv.isample = cv.entry + 7

\* C34: on a channel with buffer_size >= 2 whose every write length and every
\* read count is below buffer_size, the producer and the consumer are never
\* both waiting (the producer for space, the consumer for data with done
\* unset) with no signal pending for either, pushback or not.
C34_NoMutualWait ==
    ws.buffer_size >= 2 => ~(wr.pc = "wait" /\ rd.pc = "wait" /\ ws.done = 0)

\* the producer waits for space on a full ring while the consumer, which has
\* pushed a byte back, is in a call of read_bytes
C34_Witness ==
    /\ ws.buffer_size = MaxSize
    /\ wr.pc = "wait"
    /\ unread_count = MaxSize - 1
    /\ hist.pushed # None
    /\ rd.pc = "loop"

\* C35: decode_thread has ended only if done is set on one of its channels;
\* then the encoder has closed its file, no write_block call is in progress
\* and none is to come on either channel.  So while a write may still come
\* the thread is running, and a producer that waits for space has a consumer.
C35_ExitAfterLastWrite ==
    /\ rt.thread \in {"exited", "joined"}
        => /\ ws.done # 0 \/ (wvc_decoded(rt) /\ rt.wvc.done # 0)
           /\ rt.closed
           /\ ~encoder_active(rt)
           /\ ~writing
    /\ (rt.thread # "none" /\ (encoder_active(rt) \/ writing))
        => rt.thread = "running"

\* the thread has left its loop on the done flag of the main stream, after
\* blocks were written to both channels and read from the main one
C35_Witness ==
    /\ rt.thread = "exited"
    /\ ws.done # 0
    /\ rt.wvc.done = 0
    /\ hist.written # << >>
    /\ hist.consumed # << >>
    /\ rt.wvc.written

\* C36: bytes_written is the sum of the lengths of the accepted write_block
\* calls, ring buffer or not; bytes_read rises only by bytes taken from the
\* ring, never by a pushed-back byte; on a channel with a ring buffer, when no
\* write_block call is in progress, bytes_written - bytes_read is the number
\* of unread bytes in the ring; first_block_size is the length of the first
\* accepted write and never changes after it.  (The counters stay far below
\* 2^32 here, so the difference is taken as it is.)
C36_Counters ==
    /\ [](ws.bytes_written = Len(hist.written))
    /\ []((ws.buffer_size # 0 /\ ~writing)
            => ws.bytes_written - ws.bytes_read = unread_count)
    /\ [][/\ ws'.bytes_read >= ws.bytes_read
          /\ ws'.bytes_read # ws.bytes_read
                => /\ ws.push_back = 0
                   /\ ws'.bytes_read - ws.bytes_read = Len(rd'.data) - Len(rd.data)
                   /\ ws'.bytes_read - ws.bytes_read
                        = (ws'.buffer_tail - ws.buffer_tail) % ws.buffer_size
          /\ (reading /\ ws.push_back # 0 /\ ws'.push_back = 0)
                => ws'.bytes_read = ws.bytes_read]_vars
    /\ [](hist.written = << >> => ws.first_block_size = 0)
    /\ [][/\ (hist.written = << >> /\ hist'.written # << >>)
                => ws'.first_block_size = Len(hist'.written)
          /\ hist.written # << >>
                => ws'.first_block_size = ws.first_block_size]_vars

\* two blocks of different lengths were written, a byte pushed back was read
\* again and a byte was read from the ring: bytes_written counts both blocks,
\* bytes_read the one byte, and first_block_size is the first block's length
C36_Witness ==
    /\ ws.buffer_size # 0
    /\ ~writing
    /\ ws.bytes_written = 3
    /\ ws.first_block_size = 1
    /\ ws.bytes_read = 2
    /\ Len(delivered) = 3
    /\ unread_count = 1

\* C37: at every boundary of the streaming loop seconds * 44100 + samples is
\* 128 times the number of frames fed to the encoder, with 0 <= samples <
\* 44100; the loop ends with seconds = num_seconds, and total_encoded_samples
\* is then the number of samples fed, at least num_seconds * 44100 and less
\* than 128 above it.
C37_SamplesCounted ==
    lp.pc \in {"loop", "done"} =>
        /\ lp.seconds * 44100 + lp.samples = 128 * lp.frames
        /\ lp.samples >= 0 /\ lp.samples < 44100
        /\ lp.pc = "done" =>
            /\ lp.seconds = lp.num_seconds
            /\ lp.total_encoded_samples = 128 * lp.frames
            /\ lp.total_encoded_samples - lp.num_seconds * 44100 \in 0..127

\* two seconds have gone through the loop: 690 frames, 88320 samples, 120
\* more than two seconds' worth
C37_Witness ==
    /\ lp.pc = "done"
    /\ lp.num_seconds = 2
    /\ lp.frames = 690
    /\ lp.total_encoded_samples = 88320

\* C38: store_samples with dst and src the same buffer leaves at the start of
\* the buffer the bytes a call with a separate destination produces, for bps
\* 1..4, every qmode and every count; before each pass of its loop the samples
\* not yet stored are still as they were.
C38_InPlaceStore ==
    (cv.pc \in {"pass", "ret"} /\ cv.fn = "store_in_place") =>
        /\ \A n \in (cv.passes + 1)..Len(cv.src) :
               load_sample(cv.buf, n, cv.host_big) = cv.src[n]
        /\ \A i \in 1..(cv.bps * cv.passes) :
               cv.buf[i] = store_samples(cv.src, cv.qmode, cv.bps)[i]
        /\ cv.pc = "ret" => cv.passes = Len(cv.src)

\* two samples stored in place as three little-endian bytes each: the bytes of
\* the second lie over the last byte of the first and the first two of its own
C38_Witness ==
    /\ cv.pc = "ret" /\ cv.fn = "store_in_place"
    /\ ~cv.host_big
    /\ cv.bps = 3
    /\ ~cv.qmode.big_endian /\ ~cv.qmode.unsigned_words
    /\ cv.src = <<305419896, 128>>
    /\ cv.buf = <<120, 86, 52, 128, 0, 0, 0, 0>>
====
